---- MODULE Spec2Model ----
(***************************************************************************)
(* Model of the rowing analysis engine of rowing-coach/scripts/parse_fit.py *)
(* (signal cleaning, change-point segmentation, lap summaries, best-effort  *)
(* search, training-zone classification).                                   *)
(*                                                                          *)
(* Units.  Timestamps are whole seconds.  Distances are decimetres and      *)
(* speeds decimetres per second, so that 0.2 m/s and 0.6 m/s are integers.  *)
(* The Python floats are modelled as exact rationals: a smoothed value is   *)
(* kept as an integer multiple of 1/SmoothScale, a pace as a fraction.      *)
(***************************************************************************)
EXTENDS Integers, Sequences, FiniteSets, TLC

VARIABLES
    records,          \* the decoded samples handed to the analysis
    is_indoor,        \* session sub_sport == "indoor_rowing"
    pc,               \* position in the pipeline
    data,             \* auto_segment: preprocess_records(records)
    i,                \* auto_segment: 1-based index of the sample examined next
    current_segment,  \* auto_segment: the open chunk (indices into data)
    segments,         \* auto_segment: the closed chunks
    laps,             \* the lap list (auto_segment's result, then labelled)
    cleaned_records,  \* analyze_rowing: preprocess_records(records) for best efforts
    pending,          \* analyze_rowing: the targets still to be searched
    target,           \* find_best_effort: target_dist_m (decimetres)
    start_idx,        \* find_best_effort: 0-based window start
    end_idx,          \* find_best_effort: 0-based window end
    best_pace,        \* find_best_effort: best_pace_seconds as a fraction, or Inf
    best_effort,      \* find_best_effort: the effort recorded so far, or None
    analysis,         \* analyze_rowing: data["analysis"], target -> effort or None
    max_hr,           \* configuration: maximum heart rate
    resting_hr,       \* configuration: resting heart rate
    zq,               \* classify_training_zone: the hr and spm of a direct call
    zone,             \* classify_training_zone: the value returned
    hr_analysis,      \* analyze_rowing: data["heart_rate_analysis"]
    total_valid,      \* analyze_rowing: the number of heart rates in the histogram
    notes,            \* generate_training_report: the zone note of each lap
    avg,              \* preprocess_records: the window means just computed
    segmentation_type \* analyze_rowing: data["segmentation_type"]

vars == << records, is_indoor, pc, data, i, current_segment, segments, laps,
           cleaned_records, pending, target, start_idx, end_idx, best_pace,
           best_effort, analysis, max_hr, resting_hr, zq, zone, hr_analysis,
           total_valid, notes, avg, segmentation_type >>

segVars == << data, i, current_segment, segments, laps >>
beVars == << cleaned_records, pending, target, start_idx, end_idx, best_pace,
             best_effort, analysis >>
zoneVars == << max_hr, resting_hr, zq, zone >>
outVars == << hr_analysis, total_valid, notes >>
preVars == << avg >>
segType == << segmentation_type >>

----------------------------------------------------------------------------
(* Arithmetic helpers *)

Max(a, b) == IF a >= b THEN a ELSE b
Min(a, b) == IF a <= b THEN a ELSE b

SetMin(S) == CHOOSE x \in S : \A y \in S : x <= y
SetMax(S) == CHOOSE x \in S : \A y \in S : x >= y

\* Sum of f[k] for k in lo..hi, split in halves to keep the evaluation shallow.
RECURSIVE SumRange(_, _, _)
SumRange(f, lo, hi) ==
    IF lo > hi THEN 0
    ELSE IF lo = hi THEN f[lo]
    ELSE LET mid == (lo + hi) \div 2
         IN  SumRange(f, lo, mid) + SumRange(f, mid + 1, hi)

SumSeq(s) == SumRange(s, 1, Len(s))

\* a/b > c/d for a, c >= 0 and b, d > 0, by quotient and remainder so that no
\* product leaves the integer range.
RatGT(a, b, c, d) ==
    LET qa == a \div b
        ra == a % b
        qc == c \div d
        rc == c % d
    IN  qa > qc \/ (qa = qc /\ ra * d > rc * b)

RECURSIVE GCD(_, _)
GCD(a, b) == IF b = 0 THEN a ELSE GCD(b, a % b)

\* A fraction num/den (num >= 0, den > 0) in lowest terms.
Frac(num, den) ==
    LET g == GCD(num, den)
    IN  [num |-> num \div g, den |-> den \div g]

\* x < y for fractions.
FracLT(x, y) == RatGT(y.num, y.den, x.num, x.den)

RECURSIVE PowerOfTwo(_)
PowerOfTwo(n) == n = 1 \/ (n % 2 = 0 /\ PowerOfTwo(n \div 2))

\* A fraction that a binary float holds exactly.  Float arithmetic on such
\* values is exact here; on other values it is off by a rounding error, which
\* shows only where a truncation sits on an exact boundary.
Dyadic(f) == PowerOfTwo(f.den)

\* Decimetres per metre; metres are the unit of the source's distances.
Metres(m) == m * 10

\* Tenths: the source's speeds in m/s, times ten.
Tenths(x) == x

\* Common denominator of the smoothing windows' means (windows hold 1..11 samples).
SmoothScale == 8 * 9 * 5 * 7 * 11

None == [none |-> TRUE]

\* A dictionary key that is not set.
Absent == [absent |-> TRUE]

----------------------------------------------------------------------------
(* preprocess_records *)

CADENCE_CEILING == 60
window_size == 10

\* A timestamp that is absent is NoTs, one that does not parse is BadTs.
NoTs == 0 - 1
BadTs == 0 - 2

\* A variant that also drops a sample on the ceiling.
OutlierFilterStrict(recs) == SelectSeq(recs, LAMBDA r : r.cad < CADENCE_CEILING)

\* Step 1: outlier removal.
OutlierFilter(recs) == SelectSeq(recs, LAMBDA r : ~(r.cad > CADENCE_CEILING))

\* Step 2: the window of sample k (1-based) in a series of n samples.
WindowLo(k) == Max(1, k - window_size \div 2)

\* A variant with a window one sample wider on the right.
WindowHiWide(k, n) == Min(n, k + window_size \div 2 + 1)

WindowHi(k, n) == Min(n, k + window_size \div 2)

SmoothAt(cl, k) ==
    LET lo == WindowLo(k)
        hi == WindowHi(k, Len(cl))
        len == hi - lo + 1
        speeds == [j \in lo..hi |-> cl[j].speed]
        cads == [j \in lo..hi |-> cl[j].cad]
    IN  [speed_smooth |-> SumRange(speeds, lo, hi) * (SmoothScale \div len),
         cadence_smooth |-> SumRange(cads, lo, hi) * (SmoothScale \div len),
         dt |-> cl[k].ts] @@ cl[k]

preprocess_records(recs) ==
    LET cl == OutlierFilter(recs)
        sm == [k \in 1..Len(cl) |-> SmoothAt(cl, k)]
    IN  SelectSeq(sm, LAMBDA r : r.ts # BadTs)

\* The sign of the error of a float mean sum(vals) / len(vals), vals in units
\* of 1/per: none when the values are multiples of a half and their mean is a
\* binary fraction, or when they are all equal and their number is a power of
\* two, since every float operation is then exact; otherwise the sum or the
\* quotient is rounded, and the result can fall on either side of the mean or
\* on it.
RoundingSigns(vals, per) ==
    LET idx == DOMAIN vals
        total == SumSeq(vals)
        short == \A k \in idx : (2 * vals[k]) % per = 0
        same == \A k \in idx : vals[k] = vals[1]
    IN  IF short /\ Dyadic(Frac(total, per * Len(vals))) THEN {0}
        ELSE IF same /\ PowerOfTwo(Len(vals)) THEN {0}
        ELSE {0 - 1, 0, 1}

\* The values of a field over the window of sample k, as a sequence.
WindowValues(cl, k, field) ==
    LET lo == WindowLo(k)
    IN  [j \in 1..(WindowHi(k, Len(cl)) - lo + 1) |->
            IF field = "speed" THEN cl[lo + j - 1].speed ELSE cl[lo + j - 1].cad]

\* preprocess_records step by step: the filter, then one sample per step.
PreBegin ==
    /\ pc = "pre"
    /\ data' = << >>
    /\ i' = 1
    /\ avg' = Absent
    /\ pc' = IF Len(OutlierFilter(records)) = 0 THEN "pre_ret" ELSE "pre_loop"
    /\ UNCHANGED << records, is_indoor, current_segment, segments, laps, beVars,
                    zoneVars, outVars, segType >>

\* One iteration of the smoothing loop: the two means, as floats, and the
\* sample with them, unless its timestamp does not parse.
PreStep ==
    /\ pc = "pre_loop"
    /\ LET cl == OutlierFilter(records)
           sm == SmoothAt(cl, i)
       IN  /\ \E so \in RoundingSigns(WindowValues(cl, i, "speed"), 10),
                 co \in RoundingSigns(WindowValues(cl, i, "cadence"), 1) :
                 avg' = [k |-> i, speed_smooth |-> sm.speed_smooth,
                         cadence_smooth |-> sm.cadence_smooth,
                         speed_off |-> so, cadence_off |-> co]
           /\ data' = IF cl[i].ts = BadTs THEN data ELSE Append(data, sm)
           /\ i' = i + 1
           /\ pc' = IF i = Len(cl) THEN "pre_ret" ELSE "pre_loop"
    /\ UNCHANGED << records, is_indoor, current_segment, segments, laps, beVars,
                    zoneVars, outVars, segType >>

----------------------------------------------------------------------------
(* create_lap_from_records *)

\* int(mean) of the truthy (non-zero) readings of a field, 0 when there is none.
TruthyMean(vals) ==
    LET kept == SelectSeq(vals, LAMBDA v : v # 0)
    IN  IF Len(kept) = 0 THEN 0 ELSE SumSeq(kept) \div Len(kept)

\* avg_power of a lap summarised from samples that carry no power reading.
NO_POWER == 0

\* r.get("power", 0): the power reading of a sample, if it carries one.
PowerOf(r) == IF "pwr" \in DOMAIN r THEN r.pwr ELSE NO_POWER

\* A variant that counts the samples of the span instead of the time between them.
LapDurationInclusive(chunk) == chunk[Len(chunk)].dt - chunk[1].dt + 1

\* duration = (t_end - t_start).total_seconds(); if duration == 0: duration = 1
LapDuration(chunk) ==
    LET raw_duration == chunk[Len(chunk)].dt - chunk[1].dt
    IN  IF raw_duration = 0 THEN 1 ELSE raw_duration

\* A variant that reports the distance delta as it is.
LapDistanceSigned(chunk) == chunk[Len(chunk)].dist - chunk[1].dist

\* total_dist = dist_end - dist_start; if total_dist < 0: total_dist = 0
LapDistance(chunk) ==
    LET raw_dist == chunk[Len(chunk)].dist - chunk[1].dist
    IN  IF raw_dist < 0 THEN 0 ELSE raw_dist

create_lap_from_records(chunk) ==
    LET duration == LapDuration(chunk)
        total_dist == LapDistance(chunk)
    IN  [start_time |-> chunk[1].dt,
         total_timer_time |-> duration,
         total_elapsed_time |-> duration,
         total_distance |-> total_dist,
         avg_speed |-> [num |-> total_dist, den |-> duration],
         avg_cadence |-> TruthyMean([k \in 1..Len(chunk) |-> chunk[k].cad]),
         avg_heart_rate |-> TruthyMean([k \in 1..Len(chunk) |-> chunk[k].hr]),
         avg_power |-> TruthyMean([k \in 1..Len(chunk) |-> PowerOf(chunk[k])]),
         intensity |-> "absent",
         lap_number |-> 0,
         avg_500m_split |-> Absent,
         type |-> "",
         phase |-> ""]

\* A call of create_lap_from_records on the span held in records: the lap it
\* returns, {} for an empty span.
CreateLapCall ==
    /\ pc = "lap_call"
    /\ laps' = IF Len(records) = 0 THEN << >>
               ELSE << create_lap_from_records(records) >>
    /\ pc' = "lap_ret"
    /\ UNCHANGED << records, is_indoor, data, i, current_segment, segments, beVars,
                    zoneVars, preVars, segType, outVars >>

----------------------------------------------------------------------------
(* auto_segment *)

DIVERGENCE_THRESH == 6
STOP_SPEED == 10
MOVING_MEAN == 20
MIN_DURATION == 45
MIN_STOP_DURATION == 20
NOISE_DIST_M == 100
LOCAL_LOOKBACK == 10

SmoothOf(d, idxs) == [k \in 1..Len(idxs) |-> d[idxs[k]].speed_smooth]

\* A variant whose window holds ten samples, the current one included.
LocalLoTen(k) == Max(1, k - LOCAL_LOOKBACK + 1)

\* The local window data[max(0, i-10) : i+1], as 1-based indices.
LocalLo(k) == Max(1, k - LOCAL_LOOKBACK)

\* abs(local_mean - seg_mean) > 0.6, the means being L/m and S/c.
Diverges(L, m, S, c) ==
    \/ RatGT(L, m, S + DIVERGENCE_THRESH * SmoothScale * c, c)
    \/ RatGT(S, c, L + DIVERGENCE_THRESH * SmoothScale * m, m)

seg_duration(d, seg) == d[seg[Len(seg)]].dt - d[seg[1]].dt

is_stop(d, k, seg) ==
    /\ d[k].speed_smooth < STOP_SPEED * SmoothScale
    /\ SumSeq(SmoothOf(d, seg)) > MOVING_MEAN * SmoothScale * Len(seg)

\* A variant that splits on a stop however short the open chunk.
should_split_on_stop(d, k, seg) ==
    LET S == SumSeq(SmoothOf(d, seg))
        c == Len(seg)
        lo == LocalLo(k)
        L == SumRange([j \in lo..k |-> d[j].speed_smooth], lo, k)
        m == k - lo + 1
    IN  /\ Diverges(L, m, S, c)
        /\ \/ seg_duration(d, seg) > MIN_DURATION
           \/ is_stop(d, k, seg)

should_split(d, k, seg) ==
    LET S == SumSeq(SmoothOf(d, seg))
        c == Len(seg)
        lo == LocalLo(k)
        L == SumRange([j \in lo..k |-> d[j].speed_smooth], lo, k)
        m == k - lo + 1
    IN  /\ Diverges(L, m, S, c)
        /\ \/ seg_duration(d, seg) > MIN_DURATION
           \/ is_stop(d, k, seg) /\ seg_duration(d, seg) > MIN_STOP_DURATION

ChunkRecords(d, seg) == [k \in 1..Len(seg) |-> d[seg[k]]]

\* A variant that keeps every lap, however short.
NoiseFilterKeepAll(ls) == ls

\* A variant that also drops the laps of exactly 100 m.
NoiseFilterStrict(ls) ==
    SelectSeq(ls, LAMBDA l : l.total_distance > Metres(NOISE_DIST_M))

\* laps = [l for l in laps if l.get("total_distance", 0) >= 100]
NoiseFilter(ls) ==
    SelectSeq(ls, LAMBDA l : l.total_distance >= Metres(NOISE_DIST_M))

LapsOf(d, segs) ==
    NoiseFilter([k \in 1..Len(segs) |-> create_lap_from_records(ChunkRecords(d, segs[k]))])

\* r["dt"] of the first or the last sample of a chunk is not set.
LacksDt(d, seg) == d[seg[1]].dt = NoTs \/ d[seg[Len(seg)]].dt = NoTs

\* A variant that loses the chunk still open at the end of the input.
FlushedDropped(segs, cur) == segs

\* if current_segment: segments.append(current_segment)
Flushed(segs, cur) == IF Len(cur) > 0 THEN Append(segs, cur) ELSE segs

\* data = preprocess_records(records); an empty series returns [] at once.
SegBegin ==
    /\ pc = "start"
    /\ LET d == preprocess_records(records)
       IN  /\ data' = d
           /\ IF Len(d) = 0
              THEN /\ pc' = "segmented"
                   /\ current_segment' = << >>
                   /\ i' = 1
              ELSE /\ pc' = "cpd"
                   /\ current_segment' = << 1 >>
                   /\ i' = 2
    /\ segments' = << >>
    /\ laps' = << >>
    /\ UNCHANGED << records, is_indoor, beVars, zoneVars, preVars, segType, outVars >>

\* A variant that leaves the breakpoint sample in the chunk it closes as well.
ClosedChunkShared(cur, k) == Append(cur, k)

\* segments.append(current_segment): the chunk closed at a breakpoint at sample k.
ClosedChunk(cur, k) == cur

\* One iteration of the change-point loop, for sample k: st holds the open
\* chunk (cur) and the chunks closed so far (segs), as indices into d.
\* seg_duration reads "dt" of the first and last sample of the open chunk: a
\* sample that preprocess_records left without "dt" raises KeyError there.
SegIter(d, k, st) ==
    IF st.raised THEN st
    ELSE IF LacksDt(d, st.cur) THEN [st EXCEPT !.raised = TRUE]
    ELSE IF should_split(d, k, st.cur)
    THEN [cur |-> << k >>, segs |-> Append(st.segs, ClosedChunk(st.cur, k)),
          raised |-> FALSE]
    ELSE [cur |-> Append(st.cur, k), segs |-> st.segs, raised |-> FALSE]

SegStep ==
    /\ pc = "cpd"
    /\ i <= Len(data)
    /\ LET st == SegIter(data, i, [cur |-> current_segment, segs |-> segments,
                                   raised |-> FALSE])
       IN  /\ segments' = st.segs
           /\ current_segment' = st.cur
           /\ i' = IF st.raised THEN i ELSE i + 1
           /\ pc' = IF st.raised THEN "raised" ELSE "cpd"
    /\ UNCHANGED << records, is_indoor, data, laps, beVars, zoneVars, preVars, segType, outVars >>

\* End of the loop: flush the open chunk, summarise the chunks, drop the noise.
SegFlush ==
    /\ pc = "cpd"
    /\ i > Len(data)
    /\ LET all == Flushed(segments, current_segment)
       IN  /\ segments' = all
           /\ IF \E k \in 1..Len(all) : LacksDt(data, all[k])
              THEN pc' = "raised" /\ laps' = laps
              ELSE pc' = "segmented" /\ laps' = LapsOf(data, all)
    /\ UNCHANGED << records, is_indoor, data, i, current_segment, beVars, zoneVars, preVars, segType,
                    outVars >>

\* for i in range(1, len(data)): the iterations for samples lo..hi, in order,
\* the first half before the second (the open chunk is never empty).
RECURSIVE SegLoop(_, _, _, _)
SegLoop(d, lo, hi, st) ==
    IF lo > hi THEN st
    ELSE IF lo = hi THEN SegIter(d, lo, st)
    ELSE LET mid == (lo + hi) \div 2
             half == SegLoop(d, lo, mid, st)
         IN  IF half.cur # << >> THEN SegLoop(d, mid + 1, hi, half) ELSE half

\* auto_segment(records), with the cleaned series and the chunks it went through.
auto_segment(recs) ==
    LET d == preprocess_records(recs)
    IN  IF Len(d) = 0
        THEN [data |-> d, i |-> 1, cur |-> << >>, segments |-> << >>, laps |-> << >>,
              raised |-> FALSE]
        ELSE LET st == SegLoop(d, 2, Len(d),
                               [cur |-> << 1 >>, segs |-> << >>, raised |-> FALSE])
                 all == Flushed(st.segs, st.cur)
                 bad == st.raised \/ \E k \in 1..Len(all) : LacksDt(d, all[k])
             IN  [data |-> d, i |-> Len(d) + 1, cur |-> st.cur,
                  segments |-> IF st.raised THEN st.segs ELSE all,
                  laps |-> IF bad THEN << >> ELSE LapsOf(d, all),
                  raised |-> bad]

\* A variant that segments whatever laps were supplied.
SparseLapsAny(ls) == TRUE

\* len(laps) <= 1
SparseLaps(ls) == Len(ls) <= 1

\* analyze_rowing, the segmentation: if len(laps) <= 1 and records: new_laps =
\* auto_segment(records), which replaces the supplied laps when it is not
\* empty.  An exception leaves analyze_rowing.
AutoSegment ==
    /\ pc = "start"
    /\ IF ~SparseLaps(laps) \/ Len(records) = 0
       THEN /\ pc' = "segmented"
            /\ segmentation_type' = "original"
            /\ UNCHANGED segVars
       ELSE LET r == auto_segment(records)
            IN  /\ data' = r.data
                /\ i' = r.i
                /\ current_segment' = r.cur
                /\ segments' = r.segments
                /\ laps' = IF r.laps # << >> THEN r.laps ELSE laps
                /\ segmentation_type' =
                      IF r.raised THEN segmentation_type
                      ELSE IF r.laps # << >> THEN "auto_segmented"
                      ELSE "original"
                /\ pc' = IF r.raised THEN "raised" ELSE "segmented"
    /\ UNCHANGED << records, is_indoor, beVars, zoneVars, preVars, outVars >>

----------------------------------------------------------------------------
(* calculate_split and find_best_effort *)

\* The numbers of a split of p10 tenths of a second, as the string
\* f"{minutes}:{seconds:02}.{tenth}" shows them.
SplitOfTenths(p10) ==
    [minutes |-> (p10 \div 10) \div 60,
     seconds |-> (p10 \div 10) % 60,
     tenth |-> p10 % 10]

\* minutes = int(x // 60), seconds = int(x % 60), tenth = int((x - int(x)) * 10)
\* for a split of sp seconds (a fraction), computed exactly.
SplitString(sp) == SplitOfTenths((10 * sp.num) \div sp.den)

\* calculate_split(speed_m_s) for the speed dist/duration (decimetres, seconds):
\* split_seconds = 500 / speed; "-" (None here) when the speed is not positive.
\* The strings the float computation can give: the exact truncation, or one
\* tenth less when the exact split is a whole number of tenths that the floats
\* on the way do not hold exactly.
calculate_split(dist, duration) ==
    IF dist <= 0 \/ duration <= 0 THEN { None }
    ELSE LET split == Frac(Metres(500) * duration, dist)
             p10 == (10 * split.num) \div split.den
             exact == /\ Dyadic(Frac(dist, Metres(1)))
                      /\ Dyadic(Frac(dist, Metres(1) * duration))
                      /\ Dyadic(split)
         IN  IF exact \/ (10 * split.num) % split.den # 0
             THEN { SplitOfTenths(p10) }
             ELSE { SplitOfTenths(p10), SplitOfTenths(p10 - 1) }

\* A variant that forgets to scale the split to the target distance.
NormalizedDurationUnscaled(split, T) == split

\* normalized_duration = split_seconds * (target_dist_m / 500)
NormalizedDuration(split, T) ==
    LET g1 == GCD(T, split.den)
        g2 == GCD(split.num, Metres(500))
    IN  Frac((split.num \div g2) * (T \div g1),
             (split.den \div g1) * (Metres(500) \div g2))

\* f"{m}:{s:02}" for m = int(nd // 60), s = int(nd % 60)
TimeOfSeconds(whole) == [minutes |-> whole \div 60, seconds |-> whole % 60]

\* The time strings the float computation can give for the window: the exact
\* truncation of the normalised duration, or one second less when that duration
\* is a whole number of seconds reached through floats that are not exact.
TimeStrings(dist, duration, T) ==
    LET split == Frac(Metres(500) * duration, dist)
        nd == NormalizedDuration(split, T)
        whole == nd.num \div nd.den
        exact == /\ Dyadic(Frac(dist, Metres(1)))
                 /\ Dyadic(split)
                 /\ Dyadic(Frac(T, Metres(500)))
    IN  IF exact \/ nd.num % nd.den # 0
        THEN { TimeOfSeconds(whole) }
        ELSE { TimeOfSeconds(whole), TimeOfSeconds(whole - 1) }

\* The dictionaries that can be recorded for a window that beat the best pace.
EffortOf(recs, s, e, T) ==
    LET dist_diff == recs[e + 1].dist - recs[s + 1].dist
        duration == recs[e + 1].ts - recs[s + 1].ts
    IN  { [pace |-> p, time |-> t, start_time |-> recs[s + 1].ts,
           distance |-> dist_diff] :
             p \in calculate_split(dist_diff, duration),
             t \in TimeStrings(dist_diff, duration, T) }

\* A variant of the comparison that also replaces the best on equal pace.
BeatsOrTies(split, best) == best = None \/ ~FracLT(best, split)

\* split_seconds < best_pace_seconds, the best being inf until one is recorded.
Beats(split, best) == best = None \/ FracLT(split, best)

\* A variant that moves both ends of the window after a candidate.
AdvanceBoth(s, e) == << s + 1, e + 1 >>

\* A variant that widens the window instead of shrinking it after a candidate.
AdvanceWiden(s, e) == << s, e + 1 >>

\* start_idx += 1 after a window that reaches the target.
AdvanceShrink(s, e) == << s + 1, e >>

\* A variant that takes any window that gains distance, whatever the target.
ReachesAny(dist_diff, T) == dist_diff > 0

\* A variant that takes every window that does not lose distance.
ReachesNonNegative(dist_diff, T) == dist_diff >= 0

\* if dist_diff >= target_dist_m
ReachesTarget(dist_diff, T) == dist_diff >= T

\* The scan before its first iteration; efforts holds the dictionaries that
\* best_effort can be.
BEStart ==
    [start_idx |-> 0, end_idx |-> 0, best_pace |-> None, efforts |-> { None },
     raised |-> FALSE]

\* One iteration of the two-pointer loop.  A window that reaches the target and
\* whose two timestamps are present parses them: one that does not parse raises.
BEIter(recs, T, st) ==
    IF st.raised \/ st.end_idx >= Len(recs) THEN st
    ELSE LET r_start == recs[st.start_idx + 1]
             r_end == recs[st.end_idx + 1]
             dist_diff == r_end.dist - r_start.dist
             duration == r_end.ts - r_start.ts
             both == r_start.ts # NoTs /\ r_end.ts # NoTs
             split == Frac(Metres(500) * duration, dist_diff)
             adv == AdvanceShrink(st.start_idx, st.end_idx)
         IN  IF /\ ReachesTarget(dist_diff, T) /\ both
                /\ (r_start.ts = BadTs \/ r_end.ts = BadTs)
             THEN [st EXCEPT !.raised = TRUE]
             ELSE IF ReachesTarget(dist_diff, T)
             THEN IF both /\ duration > 0 /\ Beats(split, st.best_pace)
                  THEN [start_idx |-> adv[1], end_idx |-> adv[2], best_pace |-> split,
                        efforts |-> EffortOf(recs, st.start_idx, st.end_idx, T),
                        raised |-> FALSE]
                  ELSE [st EXCEPT !.start_idx = adv[1], !.end_idx = adv[2]]
             ELSE [st EXCEPT !.end_idx = st.end_idx + 1]

BEStep ==
    /\ pc = "be"
    /\ Len(cleaned_records) >= 2
    /\ end_idx < Len(cleaned_records)
    /\ LET st == BEIter(cleaned_records, target,
                        [start_idx |-> start_idx, end_idx |-> end_idx,
                         best_pace |-> best_pace, efforts |-> { best_effort },
                         raised |-> FALSE])
       IN  /\ start_idx' = st.start_idx
           /\ end_idx' = st.end_idx
           /\ best_pace' = st.best_pace
           /\ best_effort' \in st.efforts
           /\ pc' = IF st.raised THEN "raised" ELSE "be"
    /\ UNCHANGED << records, is_indoor, segVars, cleaned_records, pending,
                    target, analysis, zoneVars, preVars, segType, outVars >>

\* return best_effort: None at once for fewer than two records.
BEReturn ==
    /\ pc = "be"
    /\ Len(cleaned_records) < 2 \/ end_idx >= Len(cleaned_records)
    /\ analysis' = analysis @@ (target :> best_effort)
    /\ pc' = "efforts"
    /\ UNCHANGED << records, is_indoor, segVars, cleaned_records, pending, target,
                    start_idx, end_idx, best_pace, best_effort, zoneVars, preVars, segType, outVars >>

\* while end_idx < n: iterations lo..hi of the loop, in order; each one moves
\* start_idx or end_idx by one, so 2 * n iterations end it; the second half
\* has nothing to do once end_idx is n.
RECURSIVE BELoop(_, _, _, _, _)
BELoop(recs, T, lo, hi, st) ==
    IF lo > hi THEN st
    ELSE IF lo = hi THEN BEIter(recs, T, st)
    ELSE LET mid == (lo + hi) \div 2
             half == BELoop(recs, T, lo, mid, st)
         IN  IF half.end_idx < Len(recs) THEN BELoop(recs, T, mid + 1, hi, half) ELSE half

\* find_best_effort(records, target_dist_m), as the scan's last state.
find_best_effort(recs, T) ==
    IF Len(recs) < 2 THEN BEStart
    ELSE BELoop(recs, T, 1, 2 * Len(recs), BEStart)

\* data["analysis"][...] = find_best_effort(cleaned_records, T), for the next
\* canonical target.
FindBestEffort ==
    /\ pc = "be"
    /\ LET st == find_best_effort(cleaned_records, target)
       IN  /\ start_idx' = st.start_idx
           /\ end_idx' = st.end_idx
           /\ best_pace' = st.best_pace
           /\ best_effort' \in st.efforts
           /\ IF st.raised
              THEN /\ pc' = "raised"
                   /\ UNCHANGED << analysis, pending, target >>
              ELSE /\ analysis' = analysis @@ (target :> best_effort')
                   /\ IF Len(pending) = 0
                      THEN /\ pc' = "efforts"
                           /\ UNCHANGED << pending, target >>
                      ELSE /\ pc' = "be"
                           /\ target' = Head(pending)
                           /\ pending' = Tail(pending)
    /\ UNCHANGED << records, is_indoor, segVars, cleaned_records, zoneVars, preVars, segType, outVars >>

\* round(x) for x = num/den >= 0: the nearest integer, a half going to the even one.
RoundHalfEven(num, den) ==
    LET q == num \div den
        r2 == 2 * (num % den)
    IN  IF r2 < den THEN q
        ELSE IF r2 > den THEN q + 1
        ELSE IF q % 2 = 0 THEN q ELSE q + 1

\* parsed_records: the samples whose timestamp is set and parses.
ParsedRecords(recs) == SelectSeq(recs, LAMBDA r : r.ts >= 0)

\* lap_records: the parsed samples with start_dt <= dt < end_dt.
LapRecords(recs, lap) ==
    SelectSeq(ParsedRecords(recs),
              LAMBDA r : /\ r.ts >= lap.start_time
                         /\ r.ts < lap.start_time + lap.total_timer_time)

\* A metric is None or 0.
needs_fix(lap) == lap.avg_cadence = 0 \/ lap.avg_heart_rate = 0 \/ lap.avg_power = 0

\* lap_speed: avg_speed, or total_distance / total_timer_time when avg_speed is
\* missing or zero and both are positive.
lap_speed(lap) ==
    IF lap.avg_speed.num = 0 /\ lap.total_distance > 0 /\ lap.total_timer_time > 0
    THEN [num |-> lap.total_distance, den |-> lap.total_timer_time]
    ELSE lap.avg_speed

\* A variant that cuts the mean down to a whole number.
BackfilledTruncated(old, vals) ==
    LET kept == SelectSeq(vals, LAMBDA v : v > 0)
    IN  IF old # 0 \/ Len(kept) = 0 THEN old
        ELSE SumSeq(kept) \div Len(kept)

\* if not lap.get(m): the rounded mean of the positive readings, if there is one.
Backfilled(old, vals) ==
    LET kept == SelectSeq(vals, LAMBDA v : v > 0)
    IN  IF old # 0 \/ Len(kept) = 0 THEN old
        ELSE RoundHalfEven(SumSeq(kept), Len(kept))

\* The lap dictionary after its iteration of the lap loop, for one of the
\* strings calculate_split can give.
FixedLap(lap, k, recs, split) ==
    LET lap_records == LapRecords(recs, lap)
        fix == /\ needs_fix(lap)
               /\ lap.start_time >= 0
               /\ lap.total_timer_time # 0
               /\ Len(lap_records) > 0
    IN  [lap EXCEPT
           !.lap_number = k,
           !.avg_speed = lap_speed(lap),
           !.avg_500m_split = split,
           !.avg_power =
               IF fix
               THEN Backfilled(@, [j \in 1..Len(lap_records) |-> PowerOf(lap_records[j])])
               ELSE @,
           !.avg_cadence =
               IF fix
               THEN Backfilled(@, [j \in 1..Len(lap_records) |-> lap_records[j].cad])
               ELSE @,
           !.avg_heart_rate =
               IF fix
               THEN Backfilled(@, [j \in 1..Len(lap_records) |-> lap_records[j].hr])
               ELSE @]

\* The lap lists the loop can leave, from lap k on.
RECURSIVE LapChoices(_, _, _)
LapChoices(ls, recs, k) ==
    IF k > Len(ls) THEN { << >> }
    ELSE { << FixedLap(ls[k], k, recs, split) >> \o rest :
             split \in calculate_split(lap_speed(ls[k]).num, lap_speed(ls[k]).den),
             rest \in LapChoices(ls, recs, k + 1) }

\* for i, lap in enumerate(laps): number, split and backfill, on the lap itself.
LapMetrics ==
    /\ pc = "segmented"
    /\ laps' \in LapChoices(laps, records, 1)
    /\ pc' = "lapped"
    /\ UNCHANGED << records, is_indoor, data, i, current_segment, segments, beVars,
                    zoneVars, preVars, segType, outVars >>

\* The canonical targets of analyze_rowing, in the order of its calls.
CanonicalTargets ==
    << Metres(500), Metres(1000), Metres(2000), Metres(4000), Metres(10000) >>

\* analyze_rowing after the segmentation: cleaned_records = preprocess_records(
\* records), then the first best-effort search.
AnalyzeBegin ==
    /\ pc = "lapped"
    /\ cleaned_records' = preprocess_records(records)
    /\ target' = Head(CanonicalTargets)
    /\ pending' = Tail(CanonicalTargets)
    /\ start_idx' = 0
    /\ end_idx' = 0
    /\ best_pace' = None
    /\ best_effort' = None
    /\ analysis' = << >>
    /\ pc' = "be"
    /\ UNCHANGED << records, is_indoor, segVars, zoneVars, preVars, segType, outVars >>

----------------------------------------------------------------------------------------------------------------------------------------
(* analyze_rowing: the heart-rate analysis *)

\* valid_hrs: the positive heart rates of the processed records.
valid_hrs(recs) ==
    LET hrs == [k \in 1..Len(recs) |-> recs[k].hr]
    IN  SelectSeq(hrs, LAMBDA h : h > 0)

ZoneNames == << "UT2", "UT1", "AT", "TR", "AN" >>

\* zones_defs, its bounds in twentieths: 0.55, 0.70, 0.80, 0.85, 0.95, 1.00.
zones_defs ==
    [UT2 |-> [low |-> 11, high |-> 14],
     UT1 |-> [low |-> 14, high |-> 16],
     AT |-> [low |-> 16, high |-> 17],
     TR |-> [low |-> 17, high |-> 19],
     AN |-> [low |-> 19, high |-> 20]]

\* intensity = (hr - resting_hr) / hr_reserve, or 0 without a reserve, as a
\* fraction.
Intensity(hr, mx, rs) ==
    IF mx - rs > 0 THEN [num |-> hr - rs, den |-> mx - rs] ELSE [num |-> 0, den |-> 1]

\* low <= intensity < high
InZone(x, z) ==
    /\ zones_defs[z].low * x.den <= 20 * x.num
    /\ 20 * x.num < zones_defs[z].high * x.den

\* The first zone of zones_defs, from the k-th on, that holds the intensity.
RECURSIVE FirstMatch(_, _)
FirstMatch(x, k) ==
    IF k > Len(ZoneNames) THEN ""
    ELSE IF InZone(x, ZoneNames[k]) THEN ZoneNames[k]
    ELSE FirstMatch(x, k + 1)

\* A variant that leaves a heart rate at or above the maximum uncounted.
HrBucketCapped(hr, mx, rs) == FirstMatch(Intensity(hr, mx, rs), 1)

\* The bucket a heart rate is counted in, "" for none: the matching zone, or AN
\* when none matches and intensity >= 0.95.
HrBucket(hr, mx, rs) ==
    LET x == Intensity(hr, mx, rs)
        matched == FirstMatch(x, 1)
    IN  IF matched # "" THEN matched
        ELSE IF 20 * x.num >= 19 * x.den THEN "AN"
        ELSE ""

\* zone_counts after the loop over valid_hrs.
zone_counts(hrs, mx, rs) ==
    [z \in { ZoneNames[k] : k \in 1..Len(ZoneNames) } |->
        Cardinality({ k \in 1..Len(hrs) : HrBucket(hrs[k], mx, rs) = z })]

\* pct = round((seconds / total_valid) * 100, 1), in tenths of a percent: the
\* nearest tenth, a half going to the even one; either neighbour when the
\* exact value is a half that the float quotient does not hold exactly.
PercentChoices(seconds, total) ==
    LET q == (1000 * seconds) \div total
        r2 == 2 * ((1000 * seconds) % total)
    IN  IF r2 = total /\ ~Dyadic(Frac(seconds, total)) THEN { q, q + 1 }
        ELSE { RoundHalfEven(1000 * seconds, total) }

\* A variant that analyses the raw samples instead of the processed ones.
HrSourceRaw(raw, processed) == raw

\* recs_for_hr = data.get("processed_records", records): the key is always set
\* by then, so the processed records.
HrSource(raw, processed) == processed

\* The heart-rate analysis of analyze_rowing; no zones without a valid heart rate.
HrAnalysis ==
    /\ pc = "efforts"
    /\ LET hrs == valid_hrs(HrSource(records, cleaned_records))
           counts == zone_counts(hrs, max_hr, resting_hr)
           head == [max_hr_config |-> max_hr, resting_hr_config |-> resting_hr]
       IN  IF Len(hrs) = 0
           THEN /\ hr_analysis' =
                     [max_hr_observed |-> 0, avg_hr_observed |-> 0,
                      resting_hr_observed |-> 0, max_hr_config |-> max_hr,
                      resting_hr_config |-> resting_hr, zones |-> << >>]
                /\ total_valid' = total_valid
           ELSE /\ total_valid' = Len(hrs)
                /\ \E p1 \in PercentChoices(counts["UT2"], Len(hrs)),
                      p2 \in PercentChoices(counts["UT1"], Len(hrs)),
                      p3 \in PercentChoices(counts["AT"], Len(hrs)),
                      p4 \in PercentChoices(counts["TR"], Len(hrs)),
                      p5 \in PercentChoices(counts["AN"], Len(hrs)) :
                      LET pct == [UT2 |-> p1, UT1 |-> p2, AT |-> p3, TR |-> p4, AN |-> p5]
                      IN  hr_analysis' =
                            [max_hr_observed |-> SetMax({ hrs[k] : k \in 1..Len(hrs) }),
                             avg_hr_observed |-> SumSeq(hrs) \div Len(hrs),
                             resting_hr_observed |-> SetMin({ hrs[k] : k \in 1..Len(hrs) }),
                             max_hr_config |-> max_hr,
                             resting_hr_config |-> resting_hr,
                             zones |-> [z \in DOMAIN counts |->
                                          [seconds |-> counts[z],
                                           percent |-> pct[z],
                                           time_str |-> TimeOfSeconds(counts[z])]]]
    /\ pc' = "analysed"
    /\ UNCHANGED << records, is_indoor, segVars, beVars, zoneVars, preVars, segType, notes >>

----------------
(* calculate_hrr_percent and classify_training_zone *)

\* A variant that takes the share of the maximum heart rate, not of the reserve.
calculate_hr_max_percent(hr, mx, rs) ==
    IF hr <= 0 \/ mx <= rs THEN [num |-> 0, den |-> 1]
    ELSE [num |-> Max(0, Min(100 * mx, hr * 100)), den |-> mx]

\* HRR% as a fraction, clamped to 0..100; 0 without a heart rate or a reserve.
calculate_hrr_percent(hr, mx, rs) ==
    IF hr <= 0 \/ mx <= rs THEN [num |-> 0, den |-> 1]
    ELSE LET hr_reserve == mx - rs
             raw == (hr - rs) * 100
         IN  [num |-> Max(0, Min(100 * hr_reserve, raw)), den |-> hr_reserve]

\* A variant whose zone bounds are inclusive (<=) instead of exclusive (<).
ZoneOfHrrInclusive(hrr) ==
    IF hrr.num <= 65 * hrr.den THEN "UT2"
    ELSE IF hrr.num <= 75 * hrr.den THEN "UT1"
    ELSE IF hrr.num <= 85 * hrr.den THEN "AT"
    ELSE IF hrr.num <= 95 * hrr.den THEN "TR"
    ELSE "AN"

ZoneOfHrr(hrr) ==
    IF hrr.num < 65 * hrr.den THEN "UT2"
    ELSE IF hrr.num < 75 * hrr.den THEN "UT1"
    ELSE IF hrr.num < 85 * hrr.den THEN "AT"
    ELSE IF hrr.num < 95 * hrr.den THEN "TR"
    ELSE "AN"

ZoneOfSpm(spm) ==
    IF spm <= 0 THEN ""
    ELSE IF spm <= 20 THEN "UT2"
    ELSE IF spm <= 24 THEN "UT1"
    ELSE IF spm <= 28 THEN "AT"
    ELSE "TR"

classify_training_zone(hr, spm, mx, rs) ==
    IF hr <= 0 THEN ZoneOfSpm(spm)
    ELSE ZoneOfHrr(calculate_hrr_percent(hr, mx, rs))

\* A direct call of classify_training_zone.
ClassifyCall ==
    /\ pc = "zone_call"
    /\ zone' = classify_training_zone(zq.hr, zq.spm, max_hr, resting_hr)
    /\ pc' = "zone_ret"
    /\ UNCHANGED << records, is_indoor, segVars, beVars, max_hr, resting_hr, zq,
                    outVars, preVars, segType >>

----------------------------------------------------------------------------
(* export_analysis_json: Work/Rest and phase of each lap;                   *)
(* generate_training_report: the zone note of each lap                      *)

REST_SPEED == 20

\* An intensity marker is "absent" (None), a string, or an integer n of the FIT
\* enumeration, written "#n".
IntMarkers == {"#0", "#1", "#2", "#3", "#4"}

\* str(intensity).lower() on the strings in use; the digits of an integer are
\* none of the strings it is compared with.
Lower(str) ==
    IF str = "Rest" THEN "rest"
    ELSE IF str = "Active" THEN "active"
    ELSE str

\* A variant that lets the speed heuristic decide even when a marker is there.
LapIsRestBySpeed(lap) == lap.avg_speed.num < REST_SPEED * lap.avg_speed.den

\* Method 1, the lap's intensity marker; method 2, the speed heuristic.
LapIsRest(lap) ==
    IF lap.intensity # "absent"
    THEN IF Lower(lap.intensity) \in {"rest", "recovery", "warmup", "cooldown"} THEN TRUE
         ELSE IF Lower(lap.intensity) = "active" THEN FALSE
         ELSE IF lap.intensity \in IntMarkers THEN lap.intensity # "#0"
         ELSE FALSE
    ELSE lap.avg_speed.num < REST_SPEED * lap.avg_speed.den

LapType(lap) == IF LapIsRest(lap) THEN "Rest" ELSE "Work"

RestIndices(ls) == { k \in 1..Len(ls) : ls[k].type = "Rest" }

\* A variant that starts the cool-down after the first Rest lap.
PhaseOfFirstRest(ls, k, indoor) ==
    IF ~indoor THEN ls[k].type
    ELSE IF ls[k].type = "Rest" THEN "Rest"
    ELSE IF RestIndices(ls) # {} /\ k < SetMin(RestIndices(ls)) THEN "Warm-up"
    ELSE IF RestIndices(ls) # {} /\ k > SetMin(RestIndices(ls)) THEN "Cool-down"
    ELSE "Main Set"

\* The phase of lap k of the typed laps ls.
PhaseOf(ls, k, indoor) ==
    IF ~indoor THEN ls[k].type
    ELSE IF ls[k].type = "Rest" THEN "Rest"
    ELSE IF RestIndices(ls) # {} /\ k < SetMin(RestIndices(ls)) THEN "Warm-up"
    ELSE IF RestIndices(ls) # {} /\ k > SetMax(RestIndices(ls)) THEN "Cool-down"
    ELSE "Main Set"

LabelLaps ==
    /\ pc = "analysed"
    /\ LET typed == [k \in 1..Len(laps) |-> [laps[k] EXCEPT !.type = LapType(laps[k])]]
       IN  laps' = [k \in 1..Len(typed) |->
                       [typed[k] EXCEPT !.phase = PhaseOf(typed, k, is_indoor)]]
    /\ pc' = "exported"
    /\ UNCHANGED << records, is_indoor, data, i, current_segment, segments,
                    beVars, zoneVars, preVars, segType, outVars >>

\* note = "Rest" for a rest lap, else classify_training_zone(hr, cad, ...).
ZoneNote(lap, mx, rs) ==
    IF lap.type = "Rest" THEN "Rest"
    ELSE classify_training_zone(lap.avg_heart_rate, lap.avg_cadence, mx, rs)

ZoneLaps ==
    /\ pc = "exported"
    /\ notes' = [k \in 1..Len(laps) |-> ZoneNote(laps[k], max_hr, resting_hr)]
    /\ pc' = "reported"
    /\ UNCHANGED << records, is_indoor, segVars, beVars, zoneVars, preVars, segType, hr_analysis,
                    total_valid >>

----------------------------------------------------------------------------
(* Inputs: piecewise-constant activities built from blocks of samples *)

MaxBlocks == 3

Kinds ==
    { [speed |-> Tenths(40), cad |-> 24, hr |-> 150],
      [speed |-> Tenths(2), cad |-> 0, hr |-> 100],
      [speed |-> Tenths(40), cad |-> 70, hr |-> 150] }

BlockLens == {1, 12}
BlockDts == {1, 4}

Blocks == [kind : Kinds, len : BlockLens, dt : BlockDts]

BlockSeqs == UNION { [1..n -> Blocks] : n \in 1..MaxBlocks }

RECURSIVE StepsOf(_, _)
StepsOf(bs, b) ==
    IF b > Len(bs) THEN << >>
    ELSE [k \in 1..bs[b].len |->
             [speed |-> bs[b].kind.speed, cad |-> bs[b].kind.cad,
              hr |-> bs[b].kind.hr, dt |-> bs[b].dt]]
         \o StepsOf(bs, b + 1)

\* The samples of a series of steps: timestamps strictly increasing, cumulative
\* distance growing by speed * dt.
RECURSIVE Accumulate(_, _, _, _)
Accumulate(steps, k, t, d) ==
    IF k > Len(steps) THEN << >>
    ELSE LET s == steps[k]
             t2 == t + s.dt
             d2 == d + s.speed * s.dt
         IN  << [ts |-> t2, dist |-> d2, speed |-> s.speed, cad |-> s.cad,
                 hr |-> s.hr] >>
             \o Accumulate(steps, k + 1, t2, d2)

RecordsOf(bs) == Accumulate(StepsOf(bs, 1), 1, 0, 0)

MAX_HR == 195
RESTING_HR == 60

DefaultConfig ==
    /\ max_hr = MAX_HR
    /\ resting_hr = RESTING_HR
    /\ zq = None
    /\ zone = ""

OutIdle ==
    /\ hr_analysis = Absent
    /\ total_valid = Absent
    /\ notes = << >>
    /\ avg = Absent
    /\ segmentation_type = Absent

SegIdle ==
    /\ data = << >>
    /\ i = 1
    /\ current_segment = << >>
    /\ segments = << >>
    /\ laps = << >>

BEIdle ==
    /\ cleaned_records = << >>
    /\ pending = << >>
    /\ target = 0
    /\ start_idx = 0
    /\ end_idx = 0
    /\ best_pace = None
    /\ best_effort = None
    /\ analysis = << >>

\* auto_segment on the block activities.
InitSeg ==
    /\ \E bs \in BlockSeqs : records = RecordsOf(bs)
    /\ is_indoor = FALSE
    /\ pc = "start"
    /\ SegIdle
    /\ BEIdle
    /\ DefaultConfig
    /\ OutIdle

----------------------------------------------------------------------------
(* Inputs: block activities whose distance grows by a fixed stride per sample *)

\* Strides in decimetres: chunks of 9, 8 and 20 steps cover 99.9 m, 100 m and
\* 100 m; a negative stride is a distance that runs backwards.
Strides == { 0 - 500, 50, 111, 125 }

Strided(recs, stride) == [k \in 1..Len(recs) |-> [recs[k] EXCEPT !.dist = stride * k]]

InitNoise ==
    /\ \E bs \in BlockSeqs, stride \in Strides :
          records = Strided(RecordsOf(bs), stride)
    /\ is_indoor = FALSE
    /\ pc = "start"
    /\ SegIdle
    /\ BEIdle
    /\ DefaultConfig
    /\ OutIdle

----------------------------------------------------------------------------
(* Inputs: the scenarios of the specification and constant-speed activities *)

\* 200 one-second samples at 4.0 m/s, then 200 at 0.2 m/s.
Scenario4Records ==
    [k \in 1..400 |->
        IF k <= 200
        THEN [ts |-> k - 1, dist |-> 40 * k, speed |-> Tenths(40), cad |-> 24, hr |-> 150]
        ELSE [ts |-> k - 1, dist |-> 40 * 200 + 2 * (k - 200), speed |-> Tenths(2),
              cad |-> 0, hr |-> 100]]

\* 1000 one-second samples at 4.0 m/s, cadence 24, heart rate 150.
Scenario5Records ==
    [k \in 1..1000 |->
        [ts |-> k - 1, dist |-> 40 * k, speed |-> Tenths(40), cad |-> 24, hr |-> 150]]

ConstSpeeds == { Tenths(20), Tenths(25), Tenths(40), Tenths(50) }
ConstDts == {10, 20, 40}

\* Samples beyond those needed to cover the longest canonical target.
ConstSlack == 2

ConstLen(v, step) == Metres(10000) \div (v * step) + 2 + ConstSlack

ConstSeries(v, step) ==
    [k \in 1..ConstLen(v, step) |->
        [ts |-> (k - 1) * step, dist |-> v * step * k, speed |-> v, cad |-> 24,
         hr |-> 150]]

IsConstSeries(recs) == \E v \in ConstSpeeds, step \in ConstDts : recs = ConstSeries(v, step)

Init ==
    /\ \/ records = Scenario4Records
       \/ records = Scenario5Records
       \/ \E v \in ConstSpeeds, step \in ConstDts : records = ConstSeries(v, step)
    /\ is_indoor \in BOOLEAN
    /\ pc = "start"
    /\ SegIdle
    /\ BEIdle
    /\ DefaultConfig
    /\ OutIdle

----------------------------------------------------------------------------
(* Inputs: short activities with every kind of sample, for the whole pipeline *)

MaxShort == 3

\* Heart rates on and next to every bound of zones_defs for a maximum of 160
\* and a resting rate of 60, and none at all.
ShortHrs == {0, 114, 115, 129, 130, 140, 145, 154, 155, 170}

\* A sample is rowed at 24 spm with a good timestamp, or at the cadence ceiling,
\* or is a cadence glitch, or has lost its timestamp, or carries one that does
\* not parse.
SampleKinds ==
    [hr : ShortHrs, cad : {24}, how : {0}]
    \cup [hr : {130}, cad : {60, 70}, how : {0}]
    \cup [hr : {130}, cad : {24}, how : {NoTs, BadTs}]

\* One sample every 100 s and 500 m.
ShortSample(kind, k) ==
    [ts |-> IF kind.how = 0 THEN 100 * (k - 1) ELSE kind.how,
     dist |-> Metres(500) * k, speed |-> 50, cad |-> kind.cad, hr |-> kind.hr]

ShortSeries == UNION { [1..n -> SampleKinds] : n \in 0..MaxShort }

ShortRecords(kinds) == [k \in 1..Len(kinds) |-> ShortSample(kinds[k], k)]

InitShort ==
    /\ \E kinds \in ShortSeries : records = ShortRecords(kinds)
    /\ is_indoor = FALSE
    /\ pc = "start"
    /\ SegIdle
    /\ BEIdle
    /\ max_hr = 160
    /\ resting_hr = 60
    /\ zq = None
    /\ zone = ""
    /\ OutIdle

----------------------------------------------------------------------------
(* Inputs: series for preprocess_records called on its own *)

MaxPre == 12

PreLens == {1, MaxPre - 1, MaxPre}
PreSpeeds == {25, 41}
PreCads == {0, 24}
PrePositions == {1, 6}

\* One sample a second, at v tenths of a m/s up to sample n \div 2 and at w
\* after it.
Stepped(v, w, c, n) ==
    [k \in 1..n |->
        [ts |-> k - 1, dist |-> Max(v, w) * k,
         speed |-> IF k <= n \div 2 THEN v ELSE w, cad |-> c, hr |-> 150]]

\* The series with the timestamp of sample k lost (NoTs) or garbled (BadTs).
Spoiled(recs, k, how) == [recs EXCEPT ![k].ts = how]

\* A series with the sample at p turned into a cadence glitch.
Glitched(recs, p) == [recs EXCEPT ![p].cad = 70, ![p].speed = 90]

PreSeries ==
    LET plain == { Stepped(v, w, c, n) : v \in PreSpeeds, w \in PreSpeeds,
                                          c \in PreCads, n \in PreLens }
        long == { r \in plain : Len(r) >= MaxPre - 1 }
    IN  plain \cup { Glitched(r, p) : r \in long, p \in PrePositions }
              \cup { Spoiled(r, p, BadTs) : r \in long, p \in PrePositions }
              \cup { << >> }

InitPre ==
    /\ records \in PreSeries
    /\ is_indoor = FALSE
    /\ pc = "pre"
    /\ SegIdle
    /\ BEIdle
    /\ DefaultConfig
    /\ OutIdle

NextPre == PreBegin \/ PreStep

SpecPre == InitPre /\ [][NextPre]_vars

----------------------------------------------------------------------------
(* Inputs: sample spans for create_lap_from_records called on its own *)

MaxChunk == 2

\* Samples as the adapter of auto_segment hands them over, with timestamps and
\* cumulative distances that can repeat or run backwards.
SpanSamples ==
    { [ts |-> t, dt |-> t, dist |-> d, speed |-> 40, cad |-> c, hr |-> h,
       speed_smooth |-> 40 * SmoothScale, cadence_smooth |-> c * SmoothScale] :
          t \in {0, 10, 20}, d \in {0, Metres(50), Metres(150)}, c \in {0, 24},
          h \in {0, 150} }

Spans == UNION { [1..n -> SpanSamples] : n \in 0..MaxChunk }

InitLap ==
    /\ records \in Spans
    /\ is_indoor = FALSE
    /\ pc = "lap_call"
    /\ SegIdle
    /\ BEIdle
    /\ DefaultConfig
    /\ OutIdle

SpecLap == InitLap /\ [][CreateLapCall]_vars

----------------------------------------------------------------------------
(* Inputs: activities that come with laps of the device *)

MaxLaps == 3

\* A lap of the device, the k-th of its list: 100 s long, with or without an
\* intensity marker, with every metric or with some missing (0).
DeviceLap(k, start, duration, speed, marker, cad, hr, pwr) ==
    [start_time |-> start,
     total_timer_time |-> duration,
     total_elapsed_time |-> duration,
     total_distance |-> speed * duration,
     avg_speed |-> [num |-> speed, den |-> 1],
     avg_cadence |-> cad,
     avg_heart_rate |-> hr,
     avg_power |-> pwr,
     intensity |-> marker,
     lap_number |-> 0,
     avg_500m_split |-> Absent,
     type |-> "",
     phase |-> ""]

Markers == {"absent", "rest", "Active", "interval", "#0", "#1"}

\* Marked and unmarked laps at 1.5 m/s and at 2.0 m/s, and an unmarked lap
\* without a speed.
MarkedKinds ==
    [marker : Markers, speed : {15, 20}] \cup [marker : {"absent"}, speed : {0}]

MarkedLaps(kinds) ==
    [k \in 1..Len(kinds) |->
        DeviceLap(k, 100 * (k - 1), 100, kinds[k].speed, kinds[k].marker, 22, 140, 180)]

\* Samples 100 s and 500 m apart, with the readings of readings[k].
Sampled(readings) ==
    [k \in 1..Len(readings) |->
        [ts |-> 100 * (k - 1), dist |-> Metres(500) * k, speed |-> 50,
         cad |-> readings[k].cad, hr |-> readings[k].hr, pwr |-> readings[k].pwr]]

Steady == [cad |-> 24, hr |-> 130, pwr |-> 200]

\* Readings for the backfill: two rowed samples, one at rest, one cadence glitch.
Readings ==
    { Steady, [cad |-> 25, hr |-> 131, pwr |-> 201], [cad |-> 0, hr |-> 0, pwr |-> 0],
      [cad |-> 70, hr |-> 133, pwr |-> 0] }

\* A first lap with any of its metrics missing, whose start may be missing
\* (NoTs) or unparsable (BadTs) and whose duration may be 0, and a second lap.
PatchyLaps ==
    { << DeviceLap(1, start, duration, 40, "absent", cad, hr, pwr),
         DeviceLap(2, 200, 100, 40, "absent", 22, 140, 180) >> :
         start \in {0, 100, NoTs, BadTs}, duration \in {0, 200},
         cad \in {0, 22}, hr \in {0, 140}, pwr \in {0, 180} }

InitLaps ==
    /\ \/ /\ \E kinds \in UNION { [1..n -> MarkedKinds] : n \in 0..MaxLaps } :
                laps = MarkedLaps(kinds)
          /\ \/ records = Sampled(<< Steady, Steady, Steady, Steady >>)
             \/ Len(laps) <= 1 /\ records \in { << >>, Sampled(<< Steady >>) }
          /\ is_indoor \in BOOLEAN
       \/ /\ \E readings \in [1..3 -> Readings] : records = Sampled(readings)
          /\ laps \in PatchyLaps
          /\ is_indoor = FALSE
    /\ pc = "start"
    /\ data = << >>
    /\ i = 1
    /\ current_segment = << >>
    /\ segments = << >>
    /\ BEIdle
    /\ DefaultConfig
    /\ OutIdle

----------------------------------------------------------------------------
(* Inputs: sample series for find_best_effort called on its own *)

MaxSamples == 4

BEDts == {50, 150}
BEDists == { 0 - Metres(250), 0, Metres(250), Metres(500) }
BETargets == { Metres(500), Metres(1000) }

BEStepSeqs == UNION { [1..n -> [dt : BEDts, dd : BEDists]] : n \in 0..(MaxSamples - 1) }

RECURSIVE Walk(_, _, _, _)
Walk(steps, k, t, d) ==
    IF k > Len(steps) THEN << >>
    ELSE << [ts |-> t + steps[k].dt, dist |-> d + steps[k].dd, speed |-> 0,
             cad |-> 0, hr |-> 0] >>
         \o Walk(steps, k + 1, t + steps[k].dt, d + steps[k].dd)

\* A first sample 1000 m into the activity, then one sample per step.
SeriesOf(steps) ==
    << [ts |-> 0, dist |-> Metres(1000), speed |-> 0, cad |-> 0, hr |-> 0] >>
    \o Walk(steps, 1, 0, Metres(1000))

InitBE ==
    /\ \/ records = << >>
       \/ \E steps \in BEStepSeqs : records = SeriesOf(steps)
       \/ \E steps \in BEStepSeqs, how \in {NoTs, BadTs} :
             \E k \in 1..(Len(steps) + 1) : records = Spoiled(SeriesOf(steps), k, how)
    /\ cleaned_records = records
    /\ target \in BETargets
    /\ pending = << >>
    /\ start_idx = 0
    /\ end_idx = 0
    /\ best_pace = None
    /\ best_effort = None
    /\ analysis = << >>
    /\ is_indoor = FALSE
    /\ pc = "be"
    /\ SegIdle
    /\ DefaultConfig
    /\ OutIdle

NextBE == BEStep \/ BEReturn

SpecBE == InitBE /\ [][NextBE]_vars

----------------------------------------------------------------------------
(* Inputs: direct calls of classify_training_zone *)

MaxHrInput == 220

SpmInputs == { 0 - 1, 0, 1, 19, 20, 21, 24, 25, 28, 29, 40 }
ZoneConfigs == { << 195, 60 >>, << 190, 60 >>, << 160, 60 >>, << 200, 40 >> }

InitZone ==
    /\ zq \in [hr : (0 - 1)..MaxHrInput, spm : SpmInputs]
    /\ \E c \in ZoneConfigs : max_hr = c[1] /\ resting_hr = c[2]
    /\ zone = ""
    /\ records = << >>
    /\ is_indoor = FALSE
    /\ pc = "zone_call"
    /\ SegIdle
    /\ BEIdle
    /\ OutIdle

SpecZone == InitZone /\ [][ClassifyCall]_vars

NextSeg == SegBegin \/ SegStep \/ SegFlush

\* The whole pipeline: analyze_rowing, export_analysis_json, the report's notes.
Next ==
    \/ AutoSegment
    \/ LapMetrics
    \/ AnalyzeBegin
    \/ FindBestEffort
    \/ HrAnalysis
    \/ LabelLaps
    \/ ZoneLaps

Spec == Init /\ [][Next]_vars

SpecSeg == InitSeg /\ [][NextSeg]_vars

SpecShort == InitShort /\ [][Next]_vars

SpecNoise == InitNoise /\ [][NextSeg]_vars

SpecLaps == InitLaps /\ [][Next]_vars

----------------------------------------------------------------------------
(* Properties of auto_segment, checked under SpecSeg *)

RECURSIVE Flatten(_)
Flatten(ss) == IF Len(ss) = 0 THEN << >> ELSE Head(ss) \o Flatten(Tail(ss))

Iota(n) == [k \in 1..n |-> k]

SumDur(ls) == SumSeq([k \in 1..Len(ls) |-> ls[k].total_timer_time])

ActivityDuration == data[Len(data)].dt - data[1].dt

ChunkSpan(k) == seg_duration(data, segments[k])
ChunkGap(k) == data[segments[k + 1][1]].dt - data[segments[k][Len(segments[k])]].dt
ChunkDist(k) ==
    Max(0, data[segments[k][Len(segments[k])]].dist - data[segments[k][1]].dist)
ChunkDiscarded(k) == ChunkDist(k) < Metres(NOISE_DIST_M)

Returned == pc = "segmented"

\* C1 as stated: the returned laps are contiguous, each lap's start_time plus
\* its total_timer_time being the start_time of the next lap.
C1_LapsContiguous ==
    Returned =>
        \A k \in 1..(Len(laps) - 1) :
            laps[k].start_time + laps[k].total_timer_time = laps[k + 1].start_time

\* C1 amended: the returned laps are ordered by start_time and do not overlap;
\* each lap ends (start_time + total_timer_time) strictly before the next lap
\* starts, the time from a chunk's last sample to the next chunk's first sample
\* and the discarded chunks belonging to no lap.
C1_LapsOrderedDisjoint ==
    Returned =>
        \A k \in 1..(Len(laps) - 1) :
            /\ laps[k].start_time < laps[k + 1].start_time
            /\ laps[k].start_time + laps[k].total_timer_time < laps[k + 1].start_time

C1_Witness == Returned /\ Len(laps) >= 2

\* C2 as stated: the durations of the returned laps sum to the activity
\* duration, last cleaned timestamp minus first cleaned timestamp.
C2_DurationsSumToActivity ==
    (Returned /\ Len(data) > 0) => SumDur(laps) = ActivityDuration

\* C2 amended: the durations of the returned laps never exceed the activity
\* duration; they fall short of it by exactly the time between consecutive
\* chunks plus the spans of the chunks discarded as noise.
C2_DurationsAccountForActivity ==
    (Returned /\ Len(data) > 0) =>
        /\ SumDur(laps) <= ActivityDuration
        /\ SumDur(laps)
             + SumSeq([k \in 1..(Len(segments) - 1) |-> ChunkGap(k)])
             + SumSeq([k \in 1..Len(segments) |->
                          IF ChunkDiscarded(k) THEN ChunkSpan(k) ELSE 0])
           = ActivityDuration

C2_Witness ==
    /\ Returned
    /\ Len(laps) >= 1
    /\ Len(segments) > Len(laps)

\* C3: the chunking loop terminates (each iteration advances i by one up to
\* the end of the cleaned series, where the open chunk is flushed), the chunks
\* closed so far and the open chunk always hold the samples before i exactly
\* once and in order, and at the end the chunks concatenate to the series.
C3_State ==
    /\ pc = "cpd" =>
          /\ i \in 2..(Len(data) + 1)
          /\ Flatten(segments) \o current_segment = Iota(i - 1)
    /\ Returned => Flatten(segments) = Iota(Len(data))

C3_ChunksPartitionSeries ==
    /\ []C3_State
    /\ [][pc = "cpd" => (i' = i + 1 /\ pc' = "cpd") \/ (i' = i /\ i > Len(data) /\ pc' = "segmented")]_vars

C3_Witness == Returned /\ Len(segments) >= 2

----------------------------------------------------------------------------
(* Properties of the scenarios, checked under Spec *)

ChunkLens == [k \in 1..Len(segments) |-> Len(segments[k])]

Segmented == pc # "start"
Exported == pc \in {"exported", "reported"}
Analysed == pc \in {"analysed", "exported", "reported"}

\* C4 as stated: on 200 samples at 4.0 m/s followed by 200 samples at 0.2 m/s
\* the segmentation yields exactly two segments, the second classified Rest.
C4_TwoSegmentsSecondRest ==
    (records = Scenario4Records /\ Exported) =>
        /\ Len(laps) = 2
        /\ laps[2].type = "Rest"

\* C4 amended: on that series the chunking loop declares exactly one
\* breakpoint, giving two chunks of 200 samples; the second chunk covers
\* 39.8 m, less than the 100 m noise floor, and is discarded (it would have
\* been classified Rest), so exactly one lap is returned, the 4.0 m/s one,
\* and it is classified Work.
C4_RestChunkDiscarded ==
    (records = Scenario4Records /\ Segmented) =>
        /\ ChunkLens = << 200, 200 >>
        /\ ChunkDist(2) = 398
        /\ LapType(create_lap_from_records(ChunkRecords(data, segments[2]))) = "Rest"
        /\ Len(laps) = 1
        /\ laps[1].start_time = 0
        /\ laps[1].total_distance = Metres(796)
        /\ Exported => laps[1].type = "Work"

C4_Witness == records = Scenario4Records /\ pc = "exported"

TimeSec(e) == 60 * e.time.minutes + e.time.seconds
PaceTenths(e) == 600 * e.pace.minutes + 10 * e.pace.seconds + e.pace.tenth

\* C5: 1000 one-second samples at 4.0 m/s, cadence 24, heart rate 150, with
\* max_hr 195 and resting_hr 60: no change point is declared at any sample, a
\* single segment results, best_500m has time 2:05 (125 s) and pace 2:05.0,
\* and the segment's zone is UT1.
C5_SteadyScenario ==
    records = Scenario5Records =>
        /\ (max_hr = 195 /\ resting_hr = 60)
        /\ Segmented =>
              /\ Len(segments) = 1
              /\ segments[1] = Iota(Len(records))
              /\ Len(laps) = 1
        /\ Analysed =>
              /\ analysis[Metres(500)] # None
              /\ analysis[Metres(500)].time = [minutes |-> 2, seconds |-> 5]
              /\ TimeSec(analysis[Metres(500)]) = 125
              /\ analysis[Metres(500)].pace = [minutes |-> 2, seconds |-> 5, tenth |-> 0]
        /\ pc = "reported" => notes = << "UT1" >>

C5_Witness == records = Scenario5Records /\ pc = "reported"

\* C8: on a constant-speed series long enough to cover 10000 m, every
\* canonical target has a best effort and the reported durations strictly
\* increase with the target distance.
C8_DurationsIncrease ==
    (IsConstSeries(records) /\ Analysed) =>
        /\ \A k \in 1..Len(CanonicalTargets) : analysis[CanonicalTargets[k]] # None
        /\ \A k \in 1..(Len(CanonicalTargets) - 1) :
              TimeSec(analysis[CanonicalTargets[k]])
                < TimeSec(analysis[CanonicalTargets[k + 1]])

C8_Witness == IsConstSeries(records) /\ pc = "analysed"

----------------------------------------------------------------------------
(* Properties of find_best_effort, checked under SpecBE *)

Returned_BE == pc = "efforts"

NonDecreasing(recs) == \A k \in 1..(Len(recs) - 1) : recs[k].dist <= recs[k + 1].dist
Timed(recs) ==
    /\ \A k \in 1..Len(recs) : recs[k].ts >= 0
    /\ \A k \in 1..(Len(recs) - 1) : recs[k].ts < recs[k + 1].ts

\* Windows are pairs of 1-based sample indices a <= b.
Reaches(a, b) == records[b].dist - records[a].dist >= target
WindowPace(a, b) ==
    Frac(Metres(500) * (records[b].ts - records[a].ts), records[b].dist - records[a].dist)

\* The shortest window from a that reaches the target.
MinimalWindow(a, b) ==
    /\ a < b
    /\ Reaches(a, b)
    /\ \A c \in a..(b - 1) : ~Reaches(a, c)

\* C6 as stated: no pair of samples i < j at least the target apart has a
\* pace strictly smaller than the returned effort's.
C6_FastestOfAllWindows ==
    (Returned_BE /\ NonDecreasing(records) /\ Timed(records)) =>
        \A a, b \in 1..Len(records) :
            (a < b /\ Reaches(a, b)) =>
                /\ best_effort # None
                /\ ~FracLT(WindowPace(a, b), best_pace)

\* C6 amended: the returned effort is the fastest of the shortest windows:
\* for every start i whose first sample j > i with distance[j] - distance[i]
\* >= T exists, that window's pace is not strictly smaller than the returned
\* effort's, and the returned effort is one of these windows.  A longer
\* window may be faster.
C6_FastestOfShortestWindows ==
    (Returned_BE /\ NonDecreasing(records) /\ Timed(records)) =>
        /\ \A a, b \in 1..Len(records) :
              MinimalWindow(a, b) =>
                  /\ best_effort # None
                  /\ ~FracLT(WindowPace(a, b), best_pace)
        /\ best_effort # None =>
              \E a, b \in 1..Len(records) :
                  /\ MinimalWindow(a, b)
                  /\ WindowPace(a, b) = best_pace
                  /\ best_effort.start_time = records[a].ts
                  /\ best_effort.distance = records[b].dist - records[a].dist

C6_Witness ==
    /\ Returned_BE /\ NonDecreasing(records) /\ Timed(records)
    /\ best_effort # None
    /\ \E a, b \in 1..Len(records) :
          a < b /\ Reaches(a, b) /\ FracLT(WindowPace(a, b), best_pace)

\* C7 as stated: the reported time and the reported pace satisfy
\* duration = pace_per_500 * target / 500 exactly.
C7_RoundTripExact ==
    (Returned_BE /\ best_effort # None) =>
        TimeSec(best_effort) * 10 * Metres(500) = PaceTenths(best_effort) * target

\* C7 amended: the relation is exact between the untruncated values; the
\* reported time is the normalised duration pace * T / 500 cut to whole seconds
\* and the reported pace is the pace cut to tenths of a second (each one unit
\* less where float rounding falls short of an exact boundary), so the
\* reported fields satisfy only
\*     pace * T / 500 - 1 <= duration <= (pace + 0.1) * T / 500.
C7_RoundTripTruncated ==
    (Returned_BE /\ best_effort # None) =>
        LET nd == NormalizedDuration(best_pace, target)
            whole == nd.num \div nd.den
            p10 == (10 * best_pace.num) \div best_pace.den
        IN  /\ nd.num * Metres(500) * best_pace.den = nd.den * best_pace.num * target
            /\ TimeSec(best_effort) \in {whole, whole - 1}
            /\ TimeSec(best_effort) = whole - 1 => nd.num % nd.den = 0
            /\ PaceTenths(best_effort) \in {p10, p10 - 1}
            /\ PaceTenths(best_effort) = p10 - 1 => (10 * best_pace.num) % best_pace.den = 0
            /\ PaceTenths(best_effort) * target - 10 * Metres(500)
                  <= TimeSec(best_effort) * 10 * Metres(500)
            /\ TimeSec(best_effort) * 10 * Metres(500)
                  <= (PaceTenths(best_effort) + 1) * target

C7_Witness ==
    /\ Returned_BE
    /\ best_effort # None
    /\ TimeSec(best_effort) * 10 * Metres(500) # PaceTenths(best_effort) * target

\* C9: with fewer than two samples, or with no pair of samples i <= j at
\* least the target apart, find_best_effort returns None and does not raise,
\* whatever the timestamps and however the distances run.
C9_AbsentWithoutWindow ==
    (Len(records) < 2 \/ \A a, b \in 1..Len(records) : a <= b => ~Reaches(a, b)) =>
        /\ pc # "raised"
        /\ best_effort = None
        /\ Returned_BE => analysis[target] = None

C9_Witness ==
    /\ Returned_BE
    /\ Len(records) >= 2
    /\ \E k \in 1..Len(records) : records[k].ts = BadTs
    /\ \E k \in 1..(Len(records) - 1) : records[k].dist > records[k + 1].dist
    /\ \A a, b \in 1..Len(records) : a <= b => ~Reaches(a, b)

----------------------------------------------------------------------------
(* Properties of classify_training_zone, checked under SpecZone *)

\* The per-segment table, on the heart rate above rest x = hr - resting_hr and
\* the reserve R = max_hr - resting_hr: 65%, 75%, 85%, 95% of the reserve.
TableZone(hr, spm, mx, rs) ==
    LET x == hr - rs
        R == mx - rs
    IN  IF hr > 0
        THEN CASE 20 * x < 13 * R -> "UT2"
               [] 20 * x >= 13 * R /\ 4 * x < 3 * R -> "UT1"
               [] 4 * x >= 3 * R /\ 20 * x < 17 * R -> "AT"
               [] 20 * x >= 17 * R /\ 20 * x < 19 * R -> "TR"
               [] 20 * x >= 19 * R -> "AN"
        ELSE CASE spm <= 0 -> ""
               [] spm \in 1..20 -> "UT2"
               [] spm \in 21..24 -> "UT1"
               [] spm \in 25..28 -> "AT"
               [] spm > 28 -> "TR"

----------------------------------------------------------------------------
(* Properties of the heart-rate analysis, checked under SpecShort *)

\* The samples the histogram runs over: the processed samples with a positive
\* heart rate.
HistogramSamples == { k \in 1..Len(cleaned_records) : cleaned_records[k].hr > 0 }

\* The bucket of the histogram's table for a heart rate, "" below 0.55 of the
\* reserve; hrr20 is twenty times the heart rate's distance from rest.
TableBucket(hr) ==
    LET hrr20 == 20 * (hr - resting_hr)
        reserve == max_hr - resting_hr
    IN  IF hrr20 >= 19 * reserve THEN "AN"
        ELSE IF hrr20 >= 17 * reserve THEN "TR"
        ELSE IF hrr20 >= 16 * reserve THEN "AT"
        ELSE IF hrr20 >= 14 * reserve THEN "UT1"
        ELSE IF hrr20 >= 11 * reserve THEN "UT2"
        ELSE ""

BucketNames == {"UT2", "UT1", "AT", "TR", "AN"}

HasHistogram == Analysed /\ hr_analysis # Absent /\ hr_analysis.zones # << >>

SharesUse(total) ==
    \A z \in BucketNames :
        LET off == hr_analysis.zones[z].percent * total - 1000 * hr_analysis.zones[z].seconds
        IN  2 * off <= total /\ 0 - total <= 2 * off

\* C13 as stated: the total used as the percentage denominator equals the
\* number of input samples whose heart rate is positive.
C13_TotalIsInputValid ==
    HasHistogram =>
        /\ total_valid = Cardinality({ k \in 1..Len(records) : records[k].hr > 0 })
        /\ SharesUse(total_valid)

\* C13, amended: the denominator is the number of samples with a positive heart
\* rate among those preprocess_records keeps (cadence at most 60, timestamp not
\* unparsable); a sample preprocess_records drops is not counted.
C13_TotalIsProcessedValid ==
    HasHistogram =>
        /\ total_valid =
              Cardinality({ k \in 1..Len(records) :
                              /\ records[k].hr > 0
                              /\ records[k].cad <= 60
                              /\ records[k].ts # BadTs })
        /\ SharesUse(total_valid)

\* A cadence glitch with a positive heart rate was left out of the total.
C13_Witness ==
    /\ HasHistogram
    /\ pc = "analysed"
    /\ \E k \in 1..Len(records) : records[k].cad > 60 /\ records[k].hr > 0
    /\ total_valid = 2
    /\ Len(records) = 3

----------------------------------------------------------------------------
(* Properties of analyze_rowing on spoiled and short inputs, checked under
   SpecShort *)

SpoiledSamples == { k \in 1..Len(records) : records[k].ts \in {NoTs, BadTs} }

\* C14: a sample whose timestamp is missing or unparsable is silently excluded
\* from the time-dependent computations: analyze_rowing does not raise, and
\* the samples it segments and searches are the others, in their order.
C14_SpoiledTimestampExcluded ==
    SpoiledSamples # {} =>
        /\ pc # "raised"
        /\ pc \in {"be", "efforts", "analysed", "exported", "reported"} =>
              /\ Len(cleaned_records) =
                    Cardinality({ k \in 1..Len(records) :
                                    k \notin SpoiledSamples /\ records[k].cad <= 60 })
              /\ \A k \in 1..Len(cleaned_records) : cleaned_records[k].ts >= 0

\* C15: empty or insufficient input makes analyze_rowing return absent best
\* efforts and no histogram buckets rather than raise; only an input with no
\* samples at all is a hard failure reported to the caller.
C15_OnlyNoSamplesFails ==
    /\ Len(records) = 0 => pc \in {"start", "raised"}
    /\ Len(records) > 0 => pc # "raised"
    /\ (Analysed /\ Len(cleaned_records) < 2) =>
          \A t \in DOMAIN analysis : analysis[t] = None
    /\ (Analysed /\ HistogramSamples = {}) => hr_analysis.zones = << >>

----------------------------------------------------------------------------
(* Properties of preprocess_records, checked under SpecShort on the series
   auto_segment cleans *)

Preprocessed == pc \in {"segmented", "raised"} /\ Len(records) > 0

\* The output is the input samples of the index set kept, in their order.
IsSubsequenceOn(out, kept) ==
    /\ Len(out) = Cardinality(kept)
    /\ \A j \in 1..Len(out) :
          \E k \in kept :
             /\ Cardinality({ m \in kept : m <= k }) = j
             /\ out[j].ts = records[k].ts
             /\ out[j].dist = records[k].dist
             /\ out[j].speed = records[k].speed
             /\ out[j].cad = records[k].cad
             /\ out[j].hr = records[k].hr

\* C16 as stated: preprocess_records returns the input samples with cadence at
\* most 60, all of them and in their order, and drops the others.
C16_KeepsAllWithinCeiling ==
    Preprocessed =>
        IsSubsequenceOn(data, { k \in 1..Len(records) : records[k].cad <= 60 })

\* C16, amended: preprocess_records returns, in their order, the input samples
\* with cadence at most 60 whose timestamp is absent or parses; it drops every
\* sample with cadence above 60 and every sample whose timestamp does not
\* parse, so the output is no longer than the input and is empty when nothing
\* is kept.
C16_KeepsParsedWithinCeiling ==
    Preprocessed =>
        /\ IsSubsequenceOn(data, { k \in 1..Len(records) :
                                     records[k].cad <= 60 /\ records[k].ts # BadTs })
        /\ Len(data) <= Len(records)
        /\ (\A k \in 1..Len(records) : records[k].cad > 60 \/ records[k].ts = BadTs)
              => data = << >>

\* A glitch and a sample with an unparsable timestamp were dropped and a sample
\* on the ceiling kept.
C16_Witness ==
    /\ Preprocessed
    /\ Len(records) = 3
    /\ records[1].cad > 60
    /\ records[2].ts = BadTs
    /\ records[3].cad = 60
    /\ Len(data) = 1
    /\ data[1].cad = 60

----------------------------------------------------------------------------
(* Properties of the smoothing, checked under SpecPre *)

\* The samples the outlier filter retains, by their place in the input.
Retained == SelectSeq(records, LAMBDA r : r.cad <= 60)

\* A sample has just been smoothed.
Smoothed == pc \in {"pre_loop", "pre_ret"} /\ avg # Absent

\* The clipped window [k-5, k+5] in a series of n samples.
ClipLo(k) == IF k > 5 THEN k - 5 ELSE 1
ClipHi(k, n) == IF k + 5 < n THEN k + 5 ELSE n

Interior(k, n) == k > 5 /\ k + 5 <= n

\* speed_smooth and cadence_smooth of the sample just smoothed are, in exact
\* arithmetic, the sums over its clipped window divided by the window's size.
MeansOverWindow ==
    LET lo == ClipLo(avg.k)
        hi == ClipHi(avg.k, Len(Retained))
    IN  /\ avg.speed_smooth * (hi - lo + 1) =
              SumRange([j \in lo..hi |-> Retained[j].speed], lo, hi) * SmoothScale
        /\ avg.cadence_smooth * (hi - lo + 1) =
              SumRange([j \in lo..hi |-> Retained[j].cad], lo, hi) * SmoothScale

ConstantSpeed == \A j \in 1..Len(Retained) : Retained[j].speed = Retained[1].speed
ConstantCadence == \A j \in 1..Len(Retained) : Retained[j].cad = Retained[1].cad

\* C17 as stated: the smoothed values are the arithmetic means over the
\* retained samples in [i-5, i+5], clipped, and on a series of constant value
\* the smoothed value equals the raw value at every interior sample.
C17_ConstantSmoothedEqualsRaw ==
    Smoothed =>
        /\ MeansOverWindow
        /\ (ConstantSpeed /\ Interior(avg.k, Len(Retained))) =>
              /\ avg.speed_smooth = Retained[avg.k].speed * SmoothScale
              /\ avg.speed_off = 0
        /\ (ConstantCadence /\ Interior(avg.k, Len(Retained))) =>
              /\ avg.cadence_smooth = Retained[avg.k].cad * SmoothScale
              /\ avg.cadence_off = 0

\* C17, amended: the smoothed values are the means over the retained samples
\* in [i-5, i+5], clipped, computed in floats as sum / count; on a series of
\* constant value the mean is the raw value, and the float computed equals it
\* exactly when the value is a multiple of 0.5 (cadences always are), otherwise
\* only up to the rounding of the sum and the quotient.
C17_ConstantSmoothedNearRaw ==
    Smoothed =>
        /\ MeansOverWindow
        /\ ConstantSpeed =>
              /\ avg.speed_smooth = Retained[avg.k].speed * SmoothScale
              /\ Retained[avg.k].speed % 5 = 0 => avg.speed_off = 0
        /\ ConstantCadence =>
              /\ avg.cadence_smooth = Retained[avg.k].cad * SmoothScale
              /\ avg.cadence_off = 0

\* An interior sample of a series at a constant 4.1 m/s has been smoothed to a
\* float above 4.1.
C17_Witness ==
    /\ Smoothed
    /\ ConstantSpeed
    /\ Interior(avg.k, Len(Retained))
    /\ Retained[avg.k].speed = 41
    /\ avg.speed_smooth = 41 * SmoothScale
    /\ avg.speed_off = 1

----------------------------------------------------------------------------
(* Frame properties of the pipeline, checked under SpecShort *)

\* C18: no stage changes a previous stage's output in place: through
\* analyze_rowing and export_analysis_json the input samples stay as they were,
\* and so do the lap objects once the segmenter has produced them.
C18_NoInPlaceMutation ==
    [][/\ records' = records
       /\ pc \in {"segmented", "lapped", "be", "efforts", "analysed", "exported"}
             => laps' = laps]_vars

----------------------------------------------------------------------------
(* Properties of the breakpoint rule, checked under SpecSeg *)

\* auto_segment is about to look at sample i.
AtSample == pc = "cpd" /\ i <= Len(data)

\* The trailing window of sample i: the sample and up to ten before it.
TrailLo == IF i > 10 THEN i - 10 ELSE 1
TrailLen == i - TrailLo + 1
TrailSum == SumRange([j \in TrailLo..i |-> data[j].speed_smooth], TrailLo, i)

OpenLen == Len(current_segment)
OpenSum == SumSeq([k \in 1..OpenLen |-> data[current_segment[k]].speed_smooth])
OpenDuration == data[current_segment[OpenLen]].dt - data[current_segment[1]].dt

\* |local_mean - open_segment_mean| > 0.6, both sides multiplied by the two
\* sample counts.
MeansApart ==
    LET a == TrailSum * OpenLen
        b == OpenSum * TrailLen
        gap == IF a >= b THEN a - b ELSE b - a
    IN  gap > DIVERGENCE_THRESH * SmoothScale * TrailLen * OpenLen

BreakCondition ==
    /\ MeansApart
    /\ \/ OpenDuration > 45
       \/ /\ data[i].speed_smooth < STOP_SPEED * SmoothScale
          /\ OpenSum > MOVING_MEAN * SmoothScale * OpenLen
          /\ OpenDuration > 20

\* C19: a breakpoint is declared at sample i, closing the open segment and
\* opening one that starts with sample i, if and only if |local_mean -
\* open_segment_mean| > 0.6 and either the open segment's duration > 45 s, or
\* the current smoothed speed < 1.0 while the open segment's mean > 2.0 and its
\* duration > 20 s; otherwise sample i is appended to the open segment.
C19_BreakpointRule ==
    [][(AtSample /\ pc' # "raised") =>
          IF BreakCondition
          THEN /\ segments' = Append(segments, current_segment)
               /\ current_segment' = << i >>
          ELSE /\ segments' = segments
               /\ current_segment' = Append(current_segment, i)]_vars

\* A stop has closed a segment between 20 s and 45 s long.
C19_Witness ==
    /\ pc = "cpd"
    /\ Len(segments) = 1
    /\ current_segment = << i - 1 >>
    /\ data[i - 1].speed_smooth < STOP_SPEED * SmoothScale
    /\ LET seg == segments[1]
       IN  /\ data[seg[Len(seg)]].dt - data[seg[1]].dt > 20
           /\ data[seg[Len(seg)]].dt - data[seg[1]].dt <= 45

\* The number of samples in the local window of sample i.
LocalWindowLen == i - LocalLo(i) + 1

\* C20 as stated: at every step of auto_segment the trailing local window
\* contains at most 10 samples, the current sample included.
C20_WindowAtMostTen == AtSample => LocalWindowLen <= 10

\* C20, amended: the trailing local window contains the current sample and the
\* samples before it, up to 10 of them: all the samples so far while there are
\* at most 11, and 11 samples afterwards.
C20_WindowAtMostEleven ==
    AtSample =>
        /\ LocalWindowLen <= 11
        /\ LocalWindowLen = (IF i <= 11 THEN i ELSE 11)

\* A step with more than ten samples before the current one.
C20_Witness == AtSample /\ i > 11 /\ LocalWindowLen = 11

----------------------------------------------------------------------------
(* Properties of the two-pointer scan, checked step by step under SpecBE *)

\* The scan of find_best_effort is running: at least two samples were given.
Scanning == pc = "be" /\ Len(cleaned_records) >= 2

\* Exactly one of start_idx and end_idx grows by one in the step.
OnePointerMoves ==
    \/ start_idx' = start_idx + 1 /\ end_idx' = end_idx
    \/ start_idx' = start_idx /\ end_idx' = end_idx + 1

\* The window read in this iteration reaches the target and both its timestamps
\* are present, one of them unparsable.
WindowUnparsable ==
    LET r_start == cleaned_records[start_idx + 1]
        r_end == cleaned_records[end_idx + 1]
    IN  /\ r_end.dist - r_start.dist >= target
        /\ r_start.ts # NoTs /\ r_end.ts # NoTs
        /\ r_start.ts = BadTs \/ r_end.ts = BadTs

Candidate ==
    LET r_start == cleaned_records[start_idx + 1]
        r_end == cleaned_records[end_idx + 1]
    IN  /\ end_idx < Len(cleaned_records)
        /\ r_end.dist - r_start.dist >= target
        /\ r_start.ts >= 0 /\ r_end.ts >= 0
        /\ r_end.ts > r_start.ts

CandidatePace == WindowPace(start_idx + 1, end_idx + 1)

\* Among the shortest windows that have the returned pace, the returned effort
\* starts with the earliest.
EarliestOfTies ==
    (Returned_BE /\ NonDecreasing(records) /\ Timed(records) /\ best_effort # None) =>
        \A a, b \in 1..Len(records) :
            (MinimalWindow(a, b) /\ WindowPace(a, b) = best_pace) =>
                best_effort.start_time <= records[a].ts

\* C22: the recorded best is replaced only when a candidate window's pace is
\* strictly smaller, so among the evaluated windows that share the minimum
\* pace the returned effort's start_time is that of the earliest one.
C22_TiesKeepEarliest ==
    [][Scanning =>
          /\ IF Candidate /\ (best_pace = None \/ FracLT(CandidatePace, best_pace))
             THEN /\ best_pace' = CandidatePace
                  /\ best_effort'.start_time = cleaned_records[start_idx + 1].ts
             ELSE best_pace' = best_pace /\ best_effort' = best_effort
          /\ EarliestOfTies']_vars

\* Two windows tie on the best pace and the effort returned is the first.
C22_Witness ==
    /\ Returned_BE /\ NonDecreasing(records) /\ Timed(records)
    /\ best_effort # None
    /\ \E a, b, c, d \in 1..Len(records) :
          /\ a < c
          /\ MinimalWindow(a, b) /\ MinimalWindow(c, d)
          /\ WindowPace(a, b) = best_pace /\ WindowPace(c, d) = best_pace
          /\ best_effort.start_time = records[a].ts

----------------------------------------------------------------------------
(* Properties of create_lap_from_records, checked under SpecLap *)

SpanSeconds == records[Len(records)].ts - records[1].ts
SpanDistance == records[Len(records)].dist - records[1].dist

\* C23: for every non-empty span create_lap_from_records never divides by zero
\* and never reports a negative distance: a zero-duration span gets duration
\* 1, a negative distance delta gets distance 0, and avg_speed is that distance
\* over that duration.
C23_FlooredSpan ==
    (pc = "lap_ret" /\ Len(records) > 0) =>
        LET lap == laps[1]
        IN  /\ lap.total_timer_time # 0
            /\ lap.total_timer_time = (IF SpanSeconds = 0 THEN 1 ELSE SpanSeconds)
            /\ lap.total_distance >= 0
            /\ lap.total_distance = (IF SpanDistance < 0 THEN 0 ELSE SpanDistance)
            /\ lap.avg_speed.den # 0
            /\ lap.avg_speed.num * lap.total_timer_time
                  = lap.total_distance * lap.avg_speed.den

\* A span of no duration whose distance runs backwards has been summarised.
C23_Witness ==
    /\ pc = "lap_ret"
    /\ Len(records) = 2
    /\ SpanSeconds = 0
    /\ SpanDistance < 0
    /\ laps[1].total_timer_time = 1
    /\ laps[1].total_distance = 0

----------------------------------------------------------------------------
(* Properties of analyze_rowing on laps of the device, checked under SpecLaps *)

Metrics == {"avg_cadence", "avg_heart_rate", "avg_power"}

MetricOf(lap, m) ==
    IF m = "avg_cadence" THEN lap.avg_cadence
    ELSE IF m = "avg_heart_rate" THEN lap.avg_heart_rate
    ELSE lap.avg_power

ReadingOf(r, m) ==
    IF m = "avg_cadence" THEN r.cad
    ELSE IF m = "avg_heart_rate" THEN r.hr
    ELSE IF "pwr" \in DOMAIN r THEN r.pwr ELSE 0

\* The raw samples with a strictly positive reading whose timestamps lie in
\* [start, start + duration) of the lap.
PositiveInLap(lap, m) ==
    { j \in 1..Len(records) :
        /\ records[j].ts >= 0
        /\ records[j].ts >= lap.start_time
        /\ records[j].ts < lap.start_time + lap.total_timer_time
        /\ ReadingOf(records[j], m) > 0 }

ReadingSum(lap, m) ==
    SumSeq([j \in 1..Len(records) |->
              IF j \in PositiveInLap(lap, m) THEN ReadingOf(records[j], m) ELSE 0])

\* n is the whole number nearest to sum / count, the even one of two.
NearestWhole(n, sum, count) ==
    /\ 2 * (n * count - sum) <= count
    /\ 2 * (sum - n * count) <= count
    /\ (2 * (n * count - sum) = count \/ 2 * (sum - n * count) = count) => n % 2 = 0

\* The lap loop is about to run, or has just run in the step.
LapLoopStep == pc = "segmented" /\ pc' = "lapped" /\ Len(laps') = Len(laps)

CanBackfill(lap, m) ==
    /\ MetricOf(lap, m) = 0
    /\ lap.start_time >= 0
    /\ lap.total_timer_time # 0
    /\ PositiveInLap(lap, m) # {}

FilledFieldsKept(old, new) ==
    /\ new.start_time = old.start_time
    /\ new.total_timer_time = old.total_timer_time
    /\ new.total_distance = old.total_distance
    /\ old.avg_speed.num # 0 => new.avg_speed = old.avg_speed
    /\ \A m \in Metrics : MetricOf(old, m) # 0 => MetricOf(new, m) = MetricOf(old, m)

\* C24 as stated: a missing or zero avg_cadence, avg_heart_rate or avg_power of
\* a lap is backfilled with the mean of the strictly positive readings of the
\* raw samples whose timestamps lie in [start, start + duration), and every
\* aggregate field that already had a non-zero value is left unchanged.
C24_BackfillIsMean ==
    [][LapLoopStep =>
          \A k \in 1..Len(laps) :
              /\ FilledFieldsKept(laps[k], laps'[k])
              /\ \A m \in Metrics :
                    (MetricOf(laps[k], m) = 0 /\ PositiveInLap(laps[k], m) # {}) =>
                        MetricOf(laps'[k], m) * Cardinality(PositiveInLap(laps[k], m))
                           = ReadingSum(laps[k], m)]_vars

\* C24, amended: a missing or zero metric of a lap whose start_time parses and
\* whose total_timer_time is not zero is backfilled with the mean of the
\* strictly positive readings of the raw samples in [start, start + duration),
\* rounded to the nearest whole number (a half to the even one), when there is
\* such a reading; otherwise the metric stays as it was, as does every
\* aggregate field that already had a non-zero value.
C24_BackfillIsRoundedMean ==
    [][LapLoopStep =>
          \A k \in 1..Len(laps) :
              /\ FilledFieldsKept(laps[k], laps'[k])
              /\ \A m \in Metrics :
                    IF CanBackfill(laps[k], m)
                    THEN NearestWhole(MetricOf(laps'[k], m), ReadingSum(laps[k], m),
                                      Cardinality(PositiveInLap(laps[k], m)))
                    ELSE MetricOf(laps'[k], m) = MetricOf(laps[k], m)]_vars

\* A lap without avg_cadence got 48 from readings of 25 and 70, and kept its
\* heart rate.
C24_Witness ==
    /\ pc = "lapped"
    /\ segmentation_type = "original"
    /\ Len(laps) = 2
    /\ laps[1].start_time = 100
    /\ records[2].cad = 25 /\ records[3].cad = 70
    /\ laps[1].avg_cadence = 48
    /\ laps[1].avg_heart_rate = 140

\* The segmentation step of analyze_rowing has just run.
SegmentationStep == pc = "start" /\ pc' = "segmented"

\* auto_segment has not been called: nothing of its working state has moved.
SegmenterIdle == data' = data /\ i' = i /\ current_segment' = current_segment
                 /\ segments' = segments

\* C25: the lap list is replaced by auto-segmentation only when at most one
\* lap was supplied and the segmenter returns a non-empty list; with two or
\* more supplied laps the segmenter is never invoked, the supplied laps are
\* kept and segmentation_type is "original".
C25_SegmentOnlySparse ==
    [][SegmentationStep =>
          /\ Len(laps) >= 2 =>
                SegmenterIdle /\ laps' = laps /\ segmentation_type' = "original"
          /\ laps' # laps =>
                /\ Len(laps) <= 1
                /\ Len(records) > 0
                /\ laps' # << >>
                /\ laps' = LapsOf(data', segments')
          /\ segmentation_type' = IF laps' # laps THEN "auto_segmented" ELSE "original"
          /\ (Len(laps) <= 1 /\ Len(records) > 0) =>
                /\ data' = preprocess_records(records)
                /\ LapsOf(data', segments') # << >> => laps' = LapsOf(data', segments')]_vars

\* Two supplied laps went through the segmentation step with samples at hand.
C25_Witness ==
    /\ pc = "segmented"
    /\ Len(records) = 4
    /\ Len(laps) = 2
    /\ laps[1].intensity = "rest"
    /\ data = << >>
    /\ segmentation_type = "original"

\* The export is labelling the laps in the step.
LabelStep == pc = "analysed" /\ pc' = "exported" /\ Len(laps') = Len(laps)

\* The markers that stand for a non-work interval: the four names in any case
\* of letters, and every numeric marker but 0.
RestMarkers ==
    {"rest", "Rest", "recovery", "warmup", "cooldown", "#1", "#2", "#3", "#4"}

\* The lap's speed in tenths of m/s is below n.
SlowerThan(lap, n) == lap.avg_speed.num < n * lap.avg_speed.den

\* C26: export_analysis_json labels each lap Work or Rest by the supplied
\* intensity marker whenever one is present, and only a lap without marker is
\* labelled by the speed rule: Rest if and only if avg_speed < 2.0.
C26_MarkerBeforeSpeed ==
    [][LabelStep =>
          \A k \in 1..Len(laps) :
              /\ laps'[k].type \in {"Work", "Rest"}
              /\ laps'[k].type = "Rest" <=>
                    IF laps[k].intensity # "absent"
                    THEN laps[k].intensity \in RestMarkers
                    ELSE SlowerThan(laps[k], 20)]_vars

\* A slow lap marked active is Work, a fast lap marked 1 is Rest, and a lap
\* without marker at exactly 2.0 m/s is Work.
C26_Witness ==
    /\ pc = "exported"
    /\ Len(laps) = 3
    /\ laps[1].intensity = "Active" /\ SlowerThan(laps[1], 20) /\ laps[1].type = "Work"
    /\ laps[2].intensity = "#1" /\ ~SlowerThan(laps[2], 20) /\ laps[2].type = "Rest"
    /\ laps[3].intensity = "absent" /\ laps[3].avg_speed = [num |-> 20, den |-> 1]
    /\ laps[3].type = "Work"

\* The export has labelled the laps.
Labelled == pc \in {"exported", "reported"}

RestLaps == { k \in 1..Len(laps) : laps[k].type = "Rest" }

\* C27: for an indoor activity every Rest lap has phase Rest, every Work lap
\* before the first Rest lap Warm-up, every Work lap after the last Rest lap
\* Cool-down and every other Work lap Main Set, so no Warm-up follows a Rest
\* and no Cool-down precedes a Rest; for a non-indoor activity the phase of
\* each lap is its Work/Rest type.
C27_PhasesAroundRests ==
    Labelled =>
        \A k \in 1..Len(laps) :
            IF is_indoor
            THEN /\ laps[k].phase =
                       IF k \in RestLaps THEN "Rest"
                       ELSE IF RestLaps # {} /\ \A r \in RestLaps : k < r THEN "Warm-up"
                       ELSE IF RestLaps # {} /\ \A r \in RestLaps : k > r THEN "Cool-down"
                       ELSE "Main Set"
                 /\ \A j \in 1..(k - 1) :
                       /\ ~(laps[j].phase = "Rest" /\ laps[k].phase = "Warm-up")
                       /\ ~(laps[j].phase = "Cool-down" /\ laps[k].phase = "Rest")
            ELSE laps[k].phase = laps[k].type

\* An indoor activity of three laps with a work interval between two rests.
C27_Witness ==
    /\ pc = "exported"
    /\ is_indoor
    /\ Len(laps) = 3
    /\ laps[1].phase = "Rest"
    /\ laps[2].type = "Work" /\ laps[2].phase = "Main Set"
    /\ laps[3].phase = "Rest"

----------------------------------------------------------------------------
(* Properties of the noise filter of auto_segment, checked under SpecNoise *)

KeptChunks == { k \in 1..Len(segments) : ChunkDist(k) >= 1000 }

\* C28: every lap returned by auto_segment has total_distance >= 100 m; the
\* chunks covering less than 100 m are discarded and the chunks covering
\* exactly 100 m are kept, so the laps are those of the chunks of 100 m or more.
C28_LapsAtLeastHundred ==
    Returned =>
        /\ \A j \in 1..Len(laps) : laps[j].total_distance >= 1000
        /\ Len(laps) = Cardinality(KeptChunks)
        /\ \A k \in KeptChunks :
              \E j \in 1..Len(laps) :
                  /\ laps[j].start_time = data[segments[k][1]].dt
                  /\ laps[j].total_distance = ChunkDist(k)

\* A chunk of exactly 100 m became a lap while another chunk of the activity,
\* shorter than 100 m, did not.
C28_Witness ==
    /\ Returned
    /\ \E k \in 1..Len(segments) : ChunkDist(k) = 1000
    /\ \E j \in 1..Len(laps) : laps[j].total_distance = 1000
    /\ \E k \in 1..Len(segments) : ChunkDist(k) > 0 /\ ChunkDist(k) < 1000

----------------------------------------------------------------------------
(* Properties of the indices of find_best_effort, checked under SpecBE *)

\* An iteration of the scan is about to read its two samples.
Reading == Scanning /\ end_idx < Len(cleaned_records)

DistanceRunsBack ==
    \E k \in 1..(Len(cleaned_records) - 1) :
        cleaned_records[k + 1].dist < cleaned_records[k].dist

\* C29: in every iteration of the scan with a target T > 0,
\* 0 <= start <= end < n holds when the samples are read, so start never
\* overtakes end and no index is out of range, even when the cumulative
\* distance is not monotonic.
C29_IndicesInRange ==
    (Reading /\ target > 0) =>
        /\ 0 <= start_idx
        /\ start_idx <= end_idx
        /\ end_idx < Len(cleaned_records)

\* start has caught up with end past a sample where the distance runs back,
\* and another iteration is about to read.
C29_Witness ==
    /\ Reading
    /\ target > 0
    /\ DistanceRunsBack
    /\ start_idx = end_idx
    /\ start_idx >= 2

----------------------------------------------------------------------------
(* Properties of the chunks auto_segment closes, checked under SpecSeg *)

\* The chunks closed at a breakpoint: all of them while the loop runs, all but
\* the flushed one after it.
ClosedChunks ==
    IF pc = "cpd" THEN 1..Len(segments)
    ELSE IF pc = "segmented" THEN 1..(Len(segments) - 1)
    ELSE {}

\* Seconds from the first to the last sample of chunk k.
SpanOf(k) == data[segments[k][Len(segments[k])]].dt - data[segments[k][1]].dt

\* The sample after chunk k, at which it was closed, had a smoothed speed below
\* 1.0 while the mean of the chunk was above 2.0.
ClosedByStop(k) ==
    LET seg == segments[k]
        at == seg[Len(seg)] + 1
    IN  /\ data[at].speed_smooth < 10 * SmoothScale
        /\ SumSeq([j \in 1..Len(seg) |-> data[seg[j]].speed_smooth])
              > 20 * SmoothScale * Len(seg)

\* C30: every chunk that auto_segment closes at a breakpoint, that is every
\* chunk but the final flushed one, spans more than 20 seconds from its first
\* to its last sample, and more than 45 seconds unless it was closed by a stop
\* transition (current smoothed speed < 1.0 with chunk mean > 2.0).
C30_ClosedChunksLong ==
    \A k \in ClosedChunks :
        /\ SpanOf(k) > 20
        /\ SpanOf(k) > 45 \/ ClosedByStop(k)

\* auto_segment returned two chunks, the first closed by a stop after more
\* than 20 s and at most 45 s.
C30_Witness ==
    /\ pc = "segmented"
    /\ Len(segments) = 2
    /\ SpanOf(1) > 20
    /\ SpanOf(1) <= 45
    /\ ClosedByStop(1)

====
